---- MODULE Spec2Model ----
(***************************************************************************)
(* Financial metrics engine of the cooperative dashboard (src/main.py):    *)
(* the data validator, the single-period metric functions, the indicator   *)
(* summary and the period composers, over pandas-like datasets.            *)
(*                                                                         *)
(* A dataset is [cols, filas]: the set of column names and the sequence of *)
(* rows, each row a function from the column names to cells.  A cell is    *)
(* [k, v, d, s]: k = "num" (the number v/d), "nan" (missing), "str" (the   *)
(* text s, a sequence of characters, as read from a file) or "txt" (a text *)
(* that is no number whatever is done to its commas).  Computed Python     *)
(* values are [k, n, d]: "num" is the rational n/d, "txt" a str,           *)
(* "inf"/"nan" the float specials, and "err" stands for an exception       *)
(* raised while computing the value.                                       *)
(*                                                                         *)
(* Amounts are counted in units of 5 * 10^11, so that the threshold 1e12   *)
(* of the validator is 2 units; every ratio of the engine is unchanged by  *)
(* the choice of unit.                                                     *)
(***************************************************************************)
EXTENDS Integers, Sequences, FiniteSets, TLC

\* ------------------------------------------------------------------ bounds
MaxFilas == 2
MaxMonto == 3

\* ------------------------------------------------------- program constants
TIPO_INGRESOS == 5
TIPO_GASTOS == 4
TIPO_ACTIVOS == 1
TIPO_GASTOS_OPERATIVOS == 45
TIPO_PATRIMONIO == 3
UMBRAL_EXTREMO == 2
COL_CODIGO == "CODIGO_CONTABLE"
COL_TIPO == "TIPO"
COL_GRUPO == "GRUPO"
COL_MONTO == "PADRE JULIAN LORENTE LTDA"
COL_SOBRANTE == "Unnamed: 5"
columnas_requeridas == <<COL_CODIGO, COL_TIPO, COL_MONTO>>
tipos_validos == {1, 2, 3, 4, 5}
Columnas == {COL_CODIGO, COL_TIPO, COL_GRUPO, COL_MONTO}
\* the columns of a file as read, with its trailing unnamed column
ColumnasCrudas == Columnas \cup {COL_SOBRANTE}
\* the months of cargar_datos_meses that the model loads, in its order
meses == <<"Octubre", "Noviembre">>
Meses == {meses[i] : i \in 1..Len(meses)}

\* -------------------------------------------------------------------- cells
CNum(x) == [k |-> "num", v |-> x, d |-> 1, s |-> <<>>]
CNaN == [k |-> "nan", v |-> 0, d |-> 1, s |-> <<>>]
CTxt == [k |-> "txt", v |-> 0, d |-> 1, s |-> <<>>]
CStr(s) == [k |-> "str", v |-> 0, d |-> 1, s |-> s]

\* ----------------------------------------------------------- Python values
RECURSIVE GCD(_, _)
GCD(a, b) == IF b = 0 THEN a ELSE GCD(b, a % b)

Abs(x) == IF x < 0 THEN -x ELSE x

\* the rational n/d in lowest terms with a positive denominator (d # 0)
Q(n, d) ==
    LET g == GCD(Abs(n), Abs(d))
        s == IF d < 0 THEN -1 ELSE 1
    IN [k |-> "num", n |-> (s * n) \div g, d |-> (s * d) \div g]

Num(x) == [k |-> "num", n |-> x, d |-> 1]

\* the cell that holds the number n/d
CDec(n, d) == [k |-> "num", v |-> Q(n, d).n, d |-> Q(n, d).d, s |-> <<>>]
TXT == [k |-> "txt", n |-> 0, d |-> 1]
ERR == [k |-> "err", n |-> 0, d |-> 1]
NAN == [k |-> "nan", n |-> 0, d |-> 1]
INF(s) == [k |-> "inf", n |-> s, d |-> 1]

Sgn(x) == IF x < 0 THEN -1 ELSE IF x > 0 THEN 1 ELSE 0

\* a + b
Add(a, b) ==
    IF a.k = "err" \/ b.k = "err" THEN ERR
    ELSE IF a.k = "txt" /\ b.k = "txt" THEN TXT
    ELSE IF a.k = "txt" \/ b.k = "txt" THEN ERR
    ELSE IF a.k = "nan" \/ b.k = "nan" THEN NAN
    ELSE IF a.k = "inf" /\ b.k = "inf" THEN (IF a.n = b.n THEN a ELSE NAN)
    ELSE IF a.k = "inf" THEN a
    ELSE IF b.k = "inf" THEN b
    ELSE Q(a.n * b.d + b.n * a.d, a.d * b.d)

\* -a (numbers only)
Neg(a) ==
    IF a.k = "num" THEN Q(-a.n, a.d)
    ELSE IF a.k = "inf" THEN INF(-a.n)
    ELSE a

\* a - b: a str operand raises TypeError
Sub(a, b) ==
    IF a.k = "err" \/ b.k = "err" THEN ERR
    ELSE IF a.k = "txt" \/ b.k = "txt" THEN ERR
    ELSE Add(a, Neg(b))

\* a * b for a numeric b (the code multiplies by 100 only)
Mul(a, b) ==
    IF a.k = "err" \/ b.k = "err" THEN ERR
    ELSE IF a.k = "txt" \/ b.k = "txt" THEN ERR
    ELSE IF a.k = "nan" \/ b.k = "nan" THEN NAN
    ELSE IF a.k = "inf" THEN (IF b.n = 0 THEN NAN ELSE INF(a.n * Sgn(b.n)))
    ELSE IF b.k = "inf" THEN (IF a.n = 0 THEN NAN ELSE INF(b.n * Sgn(a.n)))
    ELSE Q(a.n * b.n, a.d * b.d)

\* a / b on numpy floats: a zero divisor gives inf or nan, not an exception
Div(a, b) ==
    IF a.k = "err" \/ b.k = "err" THEN ERR
    ELSE IF a.k = "txt" \/ b.k = "txt" THEN ERR
    ELSE IF a.k = "nan" \/ b.k = "nan" THEN NAN
    ELSE IF a.k = "inf" THEN (IF b.k = "inf" THEN NAN
                              ELSE INF(a.n * (IF b.n < 0 THEN -1 ELSE 1)))
    ELSE IF b.k = "inf" THEN Num(0)
    ELSE IF b.n = 0 THEN (IF a.n = 0 THEN NAN ELSE INF(Sgn(a.n)))
    ELSE Q(a.n * b.d, a.d * b.n)

\* a test of the denominator that lets every value through
NeZeroSiempre(a) == TRUE

\* the Python test  a != 0  (a str is never equal to 0, nan neither)
NeZero(a) == ~(a.k = "num" /\ a.n = 0)

IsErr(a) == a.k = "err"
IsFinite(a) == a.k = "num"

\* ------------------------------------------------------------ pandas pieces
\* left fold of Add over a sequence of values, as numpy's add.reduce
RECURSIVE Reduce(_)
Reduce(s) ==
    IF Len(s) = 0 THEN Num(0)
    ELSE IF Len(s) = 1 THEN s[1]
    ELSE Add(Reduce(SubSeq(s, 1, Len(s) - 1)), s[Len(s)])

\* the value a cell contributes to a sum: missing cells are skipped (count 0)
ValorCelda(c) ==
    IF c.k = "num" THEN Q(c.v, c.d)
    ELSE IF c.k \in {"txt", "str"} THEN TXT ELSE Num(0)

\* df[df[col] == val]["PADRE JULIAN LORENTE LTDA"].sum(); KeyError is ERR.
\* In a column of numbers the sum skips the missing cells; in a column that
\* holds text (dtype object) the cells are added one by one with Python's +.
SumaDonde(df, col, val) ==
    IF col \notin df.cols \/ COL_MONTO \notin df.cols THEN ERR
    ELSE LET sel == SelectSeq(df.filas, LAMBDA r : r[col] = CNum(val))
         IN Reduce([i \in 1..Len(sel) |-> ValorCelda(sel[i][COL_MONTO])])

\* ------------------------------------------------------- text to number
Digitos == <<"0", "1", "2", "3", "4", "5", "6", "7", "8", "9">>
EsDigito(c) == \E i \in 1..Len(Digitos) : Digitos[i] = c
ValorDigito(c) == (CHOOSE i \in 1..Len(Digitos) : Digitos[i] = c) - 1

\* the number written by a sequence of digits
RECURSIVE Entero(_)
Entero(s) ==
    IF Len(s) = 0 THEN 0
    ELSE 10 * Entero(SubSeq(s, 1, Len(s) - 1)) + ValorDigito(s[Len(s)])

RECURSIVE Potencia10(_)
Potencia10(n) == IF n = 0 THEN 1 ELSE 10 * Potencia10(n - 1)

\* the text without its sign
SinSigno(s) == IF Len(s) > 0 /\ s[1] \in {"-", "+"} THEN Tail(s) ELSE s

\* float(s) accepts s: an optional sign, then digits with at most one point
\* among them and at least one digit
EsFlotante(s) ==
    LET t == SinSigno(s)
    IN /\ \A i \in 1..Len(t) : EsDigito(t[i]) \/ t[i] = "."
       /\ Len(SelectSeq(t, LAMBDA c : c = ".")) <= 1
       /\ Len(SelectSeq(t, EsDigito)) >= 1

\* float(s) for a text that float accepts
ValorFlotante(s) ==
    LET t == SinSigno(s)
        punto == IF \E i \in 1..Len(t) : t[i] = "."
                 THEN CHOOSE i \in 1..Len(t) : t[i] = "." ELSE Len(t) + 1
        decimales == IF punto > Len(t) THEN 0 ELSE Len(t) - punto
        signo == IF Len(s) > 0 /\ s[1] = "-" THEN -1 ELSE 1
    IN CDec(signo * Entero(SelectSeq(t, EsDigito)), Potencia10(decimales))

\* the commas kept in the text
str_replace_nada(s) == s

\* .str.replace(',', '')
str_replace(s) == SelectSeq(s, LAMBDA c : c # ",")

\* pd.to_numeric(serie, errors='coerce') on one cell: a text with a comma is
\* not a number
to_numeric(c) ==
    IF c.k = "num" THEN c
    ELSE IF c.k = "str" /\ EsFlotante(c.s) THEN ValorFlotante(c.s)
    ELSE CNaN

\* ---------------------------------------------- single-period metric functions
\* the dictionary built from the three sums, or the one of the except branch
MetricasBasicas_de(ingresos, gastos, activos) ==
    IF IsErr(ingresos) \/ IsErr(gastos) \/ IsErr(activos)
          \/ IsErr(Sub(ingresos, gastos))
    THEN [ingresos |-> Num(0), gastos |-> Num(0), activos |-> Num(1),
          utilidad_neta |-> Num(0)]
    ELSE [ingresos |-> ingresos, gastos |-> gastos, activos |-> activos,
          utilidad_neta |-> Sub(ingresos, gastos)]

calcular_metricas_basicas(df, columna_activos) ==
    MetricasBasicas_de(SumaDonde(df, COL_TIPO, TIPO_INGRESOS),
                       SumaDonde(df, COL_TIPO, TIPO_GASTOS),
                       SumaDonde(df, columna_activos, TIPO_ACTIVOS))

\* operating expenses taken from the rows of TIPO == 4
calcular_metricas_eficiencia_por_tipo(df) ==
    LET ingresos == SumaDonde(df, COL_TIPO, TIPO_INGRESOS)
        gastos_operativos == SumaDonde(df, COL_TIPO, TIPO_GASTOS)
        eficiencia == IF IsErr(ingresos) \/ IsErr(gastos_operativos) THEN ERR
                      ELSE IF NeZero(ingresos)
                           THEN Div(Sub(ingresos, gastos_operativos), ingresos)
                           ELSE Num(0)
    IN IF IsErr(eficiencia)
       THEN [ingresos |-> Num(0), gastos_operativos |-> Num(0), eficiencia |-> Num(0)]
       ELSE [ingresos |-> ingresos, gastos_operativos |-> gastos_operativos,
             eficiencia |-> eficiencia]

calcular_metricas_eficiencia(df) ==
    LET ingresos == SumaDonde(df, COL_TIPO, TIPO_INGRESOS)
        gastos_operativos == SumaDonde(df, COL_CODIGO, TIPO_GASTOS_OPERATIVOS)
        eficiencia == IF IsErr(ingresos) \/ IsErr(gastos_operativos) THEN ERR
                      ELSE IF NeZero(ingresos)
                           THEN Div(Sub(ingresos, gastos_operativos), ingresos)
                           ELSE Num(0)
    IN IF IsErr(eficiencia)
       THEN [ingresos |-> Num(0), gastos_operativos |-> Num(0), eficiencia |-> Num(0)]
       ELSE [ingresos |-> ingresos, gastos_operativos |-> gastos_operativos,
             eficiencia |-> eficiencia]

calcular_metricas_solvencia(df) ==
    LET patrimonio == SumaDonde(df, COL_TIPO, TIPO_PATRIMONIO)
        activos_total == SumaDonde(df, COL_CODIGO, TIPO_ACTIVOS)
        solvencia == IF IsErr(patrimonio) \/ IsErr(activos_total) THEN ERR
                     ELSE IF NeZero(activos_total)
                          THEN Mul(Div(patrimonio, activos_total), Num(100))
                          ELSE Num(0)
    IN IF IsErr(solvencia)
       THEN [patrimonio |-> Num(0), activos_total |-> Num(1), solvencia |-> Num(0)]
       ELSE [patrimonio |-> patrimonio, activos_total |-> activos_total,
             solvencia |-> solvencia]

\* the ratio as a fraction and not as a percentage
RoaSinPorcentaje(utilidad_neta, activos) ==
    IF NeZero(activos) THEN Div(utilidad_neta, activos) ELSE Num(0)

\* the ratio without the test of the denominator
RoaSinGuarda(utilidad_neta, activos) == Mul(Div(utilidad_neta, activos), Num(100))

\* (utilidad_neta / activos) * 100 if activos != 0 else 0
RoaDe(utilidad_neta, activos) ==
    IF NeZero(activos) THEN Mul(Div(utilidad_neta, activos), Num(100)) ELSE Num(0)

\* ------------------------------------------------------------ indicator summary
\* the fallback with the default value of the parameter mes_actual
IndicadoresEnCeroEnero(mes_actual) ==
    [roa |-> Num(0), eficiencia |-> Num(0), solvencia |-> Num(0),
     mes_actual |-> "Enero"]

\* the result of the except branch
IndicadoresEnCero(mes_actual) ==
    [roa |-> Num(0), eficiencia |-> Num(0), solvencia |-> Num(0),
     mes_actual |-> mes_actual]

calcular_indicadores_principales(d, mes_actual) ==
    LET cero == IndicadoresEnCero(mes_actual)
    IN IF mes_actual \notin DOMAIN d THEN cero
       ELSE LET df == d[mes_actual]
                metricas_basicas == calcular_metricas_basicas(df, COL_CODIGO)
                roa == RoaDe(metricas_basicas.utilidad_neta, metricas_basicas.activos)
                eficiencia == Mul(calcular_metricas_eficiencia(df).eficiencia, Num(100))
                solvencia == calcular_metricas_solvencia(df).solvencia
            IN IF IsErr(roa) \/ IsErr(eficiencia) \/ IsErr(solvencia) THEN cero
               ELSE [roa |-> roa, eficiencia |-> eficiencia, solvencia |-> solvencia,
                     mes_actual |-> mes_actual]

\* ------------------------------------------------------------------- validator
\* the values of a sequence in order of first appearance (Series.unique)
RECURSIVE Unique(_)
Unique(s) ==
    IF Len(s) = 0 THEN <<>>
    ELSE LET u == Unique(SubSeq(s, 1, Len(s) - 1))
             x == s[Len(s)]
         IN IF \E i \in 1..Len(u) : u[i] = x THEN u ELSE Append(u, x)

\* the column col of df as a sequence of cells
Serie(df, col) == [i \in 1..Len(df.filas) |-> df.filas[i][col]]

\* df with the column col replaced by the cells of serie
ConColumna(df, col, serie) ==
    [df EXCEPT !.filas = [i \in 1..Len(df.filas) |->
                            [df.filas[i] EXCEPT ![col] = serie[i]]]]

\* df.copy(): a new object with the same content
Copia(df) == df

\* the assignment when df_copy is the caller's object and not a copy of it
AsignarSinCopia(df, df_copy, serie) ==
    [df |-> ConColumna(df, COL_MONTO, serie),
     df_copy |-> ConColumna(df_copy, COL_MONTO, serie)]

\* the object that df_copy["PADRE JULIAN LORENTE LTDA"] = ... writes into is the
\* copy, so the caller's dataset keeps its cells
AsignarEnCopia(df, df_copy, serie) ==
    [df |-> df, df_copy |-> ConColumna(df_copy, COL_MONTO, serie)]

\* t not in tipos_validos and pd.notna(t)
TipoInvalido(c) == c.k # "nan" /\ ~(c.k = "num" /\ c.v \in tipos_validos)

\* The validator's progress is [errores, advertencias, df, exc]: the two lists,
\* the caller's dataset, and whether an exception has reached the outer try.
\* Messages are <<kind, detail>>.

\* for col in columnas_requeridas: if col not in df.columns: errores.append(...)
VerificarColumnas(df) ==
    LET faltantes == SelectSeq(columnas_requeridas, LAMBDA col : col \notin df.cols)
    IN [i \in 1..Len(faltantes) |-> <<"columna_faltante", faltantes[i]>>]

\* no return after the check of the columns
NuncaCorta(errores) == FALSE

\* if errores: return False, errores, []
CortaPorErrores(errores) == Len(errores) > 0

\* the cells that fail the coercion reported as an error
VerificarTiposDeDatosComoError(st) ==
    IF COL_MONTO \notin st.df.cols
    THEN [st EXCEPT !.errores = Append(@, <<"error_convirtiendo", 0>>)]
    ELSE IF \E i \in 1..Len(st.df.filas) : to_numeric(st.df.filas[i][COL_MONTO]).k = "nan"
         THEN [st EXCEPT !.errores = Append(@, <<"no_convertibles", 0>>)]
         ELSE st

\* the inner try: coerce the amounts of a copy and warn when a cell is missing
\* after the coercion; any exception in it is recorded as an error
VerificarTiposDeDatos(st) ==
    IF COL_MONTO \notin st.df.cols
    THEN [st EXCEPT !.errores = Append(@, <<"error_convirtiendo", 0>>)]
    ELSE LET df_copy0 == Copia(st.df)
             coer == [i \in 1..Len(df_copy0.filas) |->
                        to_numeric(df_copy0.filas[i][COL_MONTO])]
             obj == AsignarEnCopia(st.df, df_copy0, coer)
         IN [st EXCEPT
               !.df = obj.df,
               !.advertencias =
                   IF \E i \in 1..Len(obj.df_copy.filas) :
                          obj.df_copy.filas[i][COL_MONTO].k = "nan"
                   THEN Append(@, <<"no_convertibles", 0>>) ELSE @]

\* the threshold itself counted as extreme
EsExtremoInclusive(c) == Abs(c.v) >= UMBRAL_EXTREMO * c.d

\* abs(valores_monetarios) > 1e12
EsExtremo(c) == Abs(c.v) > UMBRAL_EXTREMO * c.d

\* the range check over the amounts that are numbers
VerificarRangos(st) ==
    IF COL_MONTO \notin st.df.cols THEN [st EXCEPT !.exc = TRUE]
    ELSE LET valores_monetarios ==
                 SelectSeq([i \in 1..Len(st.df.filas) |->
                               to_numeric(st.df.filas[i][COL_MONTO])],
                           LAMBDA c : c.k # "nan")
             valores_extremos == SelectSeq(valores_monetarios, EsExtremo)
         IN IF Len(valores_monetarios) = 0
            THEN [st EXCEPT !.errores = Append(@, <<"sin_valores_validos", 0>>)]
            ELSE IF Len(valores_extremos) > 0
                 THEN [st EXCEPT !.advertencias =
                          Append(@, <<"valores_extremos", Len(valores_extremos)>>)]
                 ELSE st

\* the account types that are not standard reported as an error
VerificarTiposCuentaComoError(st) ==
    IF st.exc THEN st
    ELSE IF COL_TIPO \notin st.df.cols THEN [st EXCEPT !.exc = TRUE]
    ELSE LET tipos_invalidos == SelectSeq(Unique(Serie(st.df, COL_TIPO)), TipoInvalido)
         IN IF Len(tipos_invalidos) > 0
            THEN [st EXCEPT !.errores = Append(@, <<"tipos_no_estandar", tipos_invalidos>>)]
            ELSE st

\* the account types present that are not standard
VerificarTiposCuenta(st) ==
    IF st.exc THEN st
    ELSE IF COL_TIPO \notin st.df.cols THEN [st EXCEPT !.exc = TRUE]
    ELSE LET tipos_presentes == Unique(Serie(st.df, COL_TIPO))
             tipos_invalidos == SelectSeq(tipos_presentes, TipoInvalido)
         IN IF Len(tipos_invalidos) > 0
            THEN [st EXCEPT !.advertencias =
                     Append(@, <<"tipos_no_estandar", tipos_invalidos>>)]
            ELSE st

\* valid only without warnings as well
EsValidoSinAvisos(errores, advertencias) == Len(errores) = 0 /\ Len(advertencias) = 0

\* return len(errores) == 0, errores, advertencias
EsValido(errores, advertencias) == Len(errores) = 0

\* Returns [valido, errores, advertencias] and df, the caller's dataset as the
\* call leaves it.
validar_datos_financieros(df) ==
    LET errores0 == VerificarColumnas(df)
    IN IF CortaPorErrores(errores0)
       THEN [valido |-> FALSE, errores |-> errores0, advertencias |-> <<>>, df |-> df]
       ELSE
         LET st0 == [errores |-> errores0, advertencias |-> <<>>, df |-> df,
                     exc |-> FALSE]
             st == VerificarTiposCuenta(VerificarRangos(VerificarTiposDeDatos(st0)))
         IN IF st.exc
            THEN [valido |-> FALSE,
                  errores |-> Append(st.errores, <<"error_general", 0>>),
                  advertencias |-> st.advertencias, df |-> st.df]
            ELSE [valido |-> EsValido(st.errores, st.advertencias),
                  errores |-> st.errores, advertencias |-> st.advertencias,
                  df |-> st.df]

\* ------------------------------------------------------------ cleaning a file
\* df.drop(col, axis=1): a new dataset without the column
Drop(df, col) ==
    [cols |-> df.cols \ {col},
     filas |-> [i \in 1..Len(df.filas) |-> [c \in df.cols \ {col} |-> df.filas[i][c]]]]

\* .astype(str).str.replace(',', '').astype(float) on one cell; "falla" when
\* float raises ValueError.  The text of a float reads back as the same float,
\* and the text of a missing cell, "nan", as a missing cell.
ConvertirMonto(c) ==
    IF c.k \in {"num", "nan"} THEN [falla |-> FALSE, celda |-> c]
    ELSE IF c.k = "str" /\ EsFlotante(str_replace(c.s))
         THEN [falla |-> FALSE, celda |-> ValorFlotante(str_replace(c.s))]
         ELSE [falla |-> TRUE, celda |-> c]

\* the column is assigned when the whole conversion went through; otherwise
\* the except branch returns the dataset as it is
ConvertirTodoONada(df, conv) ==
    IF \E i \in 1..Len(conv) : conv[i].falla THEN df
    ELSE ConColumna(df, COL_MONTO, [i \in 1..Len(conv) |-> conv[i].celda])

procesar_dataframe(df) ==
    LET df1 == IF COL_SOBRANTE \in df.cols THEN Drop(df, COL_SOBRANTE) ELSE df
    IN IF COL_MONTO \notin df1.cols THEN df1
       ELSE ConvertirTodoONada(df1, [i \in 1..Len(df1.filas) |->
                                        ConvertirMonto(df1.filas[i][COL_MONTO])])

\* ------------------------------------------------------------ period composers
\* one row of a result table
FilaTabla(mes, m) ==
    [Mes |-> mes, Ingresos_Totales |-> m.ingresos, Gastos_Totales |-> m.gastos,
     Utilidad_Neta |-> m.utilidad_neta, Activo_Promedio |-> m.activos]

\* an uncaught exception leaves the caller without a result
Lanza == [exc |-> TRUE]

\* the two Assets added and not averaged
ActivoSumaDosMeses(activos1, activos2) == Add(activos1, activos2)

\* (metricas_mes1['activos'] + metricas_mes2['activos']) / 2
ActivoPromedioDosMeses(activos1, activos2) == Div(Add(activos1, activos2), Num(2))

calcularROAMESES(mes, df, mes1, df1) ==
    LET metricas_mes1 == calcular_metricas_basicas(df, COL_CODIGO)
        metricas_mes2 == calcular_metricas_basicas(df1, COL_CODIGO)
        resultados == <<FilaTabla(mes, metricas_mes1), FilaTabla(mes1, metricas_mes2)>>
        utilidad_neta_total == Add(metricas_mes1.utilidad_neta, metricas_mes2.utilidad_neta)
        activo_promedio == ActivoPromedioDosMeses(metricas_mes1.activos, metricas_mes2.activos)
        roa == IF IsErr(activo_promedio) THEN ERR
               ELSE RoaDe(utilidad_neta_total, activo_promedio)
    IN IF IsErr(utilidad_neta_total) \/ IsErr(roa) THEN Lanza
       ELSE [exc |-> FALSE, tabla |-> resultados,
             ingresos |-> metricas_mes2.ingresos, gastos |-> metricas_mes2.gastos,
             utilidad_neta_total |-> utilidad_neta_total,
             activo_promedio |-> activo_promedio, roa |-> roa]

\* the loop of calcularROATRIMESTRE and calcularROAAnual over the periods:
\* per-period rows and ROA, the running NetResult and the list of Assets
\* one turn of the loop: the row of the period, its ROA and the running totals
UnPeriodo(prev, mes, metricas) ==
    [tabla |-> Append(prev.tabla, FilaTabla(mes, metricas)),
     roas |-> Append(prev.roas,
                     [Mes |-> mes,
                      ROA |-> RoaDe(metricas.utilidad_neta, metricas.activos)]),
     ingresos |-> Add(prev.ingresos, metricas.ingresos),
     gastos |-> Add(prev.gastos, metricas.gastos),
     utilidad |-> Add(prev.utilidad, metricas.utilidad_neta),
     activos |-> Append(prev.activos, metricas.activos)]

RECURSIVE Recorrer(_, _, _)
Recorrer(nombres, datos, columna_activos) ==
    IF Len(nombres) = 0
    THEN [tabla |-> <<>>, roas |-> <<>>, ingresos |-> Num(0), gastos |-> Num(0),
          utilidad |-> Num(0), activos |-> <<>>]
    ELSE UnPeriodo(Recorrer(SubSeq(nombres, 1, Len(nombres) - 1),
                            SubSeq(datos, 1, Len(nombres) - 1), columna_activos),
                   nombres[Len(nombres)],
                   calcular_metricas_basicas(datos[Len(nombres)], columna_activos))

HayError(s) == \E i \in 1..Len(s) : IsErr(s[i])

\* the Assets of the periods added and not averaged
ActivoSumaTrimestre(activos_totales) == Reduce(<<Num(0)>> \o activos_totales)

\* the Assets of the first period in place of the average
ActivoPrimeroTrimestre(activos_totales) == activos_totales[1]

\* sum(activos_totales) / len(activos_totales)
ActivoPromedioTrimestre(activos_totales) ==
    Div(Reduce(<<Num(0)>> \o activos_totales), Num(Len(activos_totales)))

\* the composed ROA over the mean of the Assets; an exception raised by the
\* mean propagates
RoaCompuesto(utilidad, activo_promedio) ==
    IF IsErr(activo_promedio) THEN ERR ELSE RoaDe(utilidad, activo_promedio)

\* the result of the quarter from the loop, the mean and the last period
ResultadoTrimestre(r, activo_promedio, metricas_ultimo_mes) ==
    IF HayError([i \in 1..3 |-> r.roas[i].ROA]) \/ IsErr(r.utilidad)
          \/ IsErr(RoaCompuesto(r.utilidad, activo_promedio))
    THEN Lanza
    ELSE [exc |-> FALSE, tabla |-> r.tabla, tabla_roa |-> r.roas,
          ingresos |-> metricas_ultimo_mes.ingresos,
          gastos |-> metricas_ultimo_mes.gastos,
          utilidad_neta_total |-> r.utilidad,
          activo_promedio |-> activo_promedio,
          roa |-> RoaCompuesto(r.utilidad, activo_promedio)]

\* the Income and the Expense of the whole quarter in place of the last period's
PromediarTrimestreConTotales(r, metricas_ultimo_mes) ==
    ResultadoTrimestre(r, ActivoPromedioTrimestre(r.activos),
                       [ingresos |-> r.ingresos, gastos |-> r.gastos])

\* the loop handed to the mean and to the result
PromediarTrimestre(r, metricas_ultimo_mes) ==
    ResultadoTrimestre(r, ActivoPromedioTrimestre(r.activos), metricas_ultimo_mes)

calcularROATRIMESTRE(mes, df, mes1, df1, mes2, df2) ==
    PromediarTrimestre(Recorrer(<<mes, mes1, mes2>>, <<df, df1, df2>>, COL_CODIGO),
                       calcular_metricas_basicas(df2, COL_CODIGO))

\* the loaded months in the reverse of the loading order
ClavesAlReves(d) ==
    [i \in 1..Cardinality(DOMAIN d) |->
        SelectSeq(meses, LAMBDA m : m \in DOMAIN d)[Cardinality(DOMAIN d) + 1 - i]]

\* ------------------------------------------------------- the quarter of the ROA view
Trimestres ==
    {"Enero - Marzo", "Abril - Junio", "Julio - Septiembre", "Octubre - Diciembre"}

\* the last quarter with its own third month
MesesConDiciembre(trimestre) ==
    IF trimestre = "Enero - Marzo" THEN <<"Enero", "Febrero", "Marzo">>
    ELSE IF trimestre = "Abril - Junio" THEN <<"Abril", "Mayo", "Junio">>
    ELSE IF trimestre = "Julio - Septiembre" THEN <<"Julio", "Agosto", "Septiembre">>
    ELSE <<"Octubre", "Noviembre", "Diciembre">>

\* meses = [...] for the quarter selected
MesesDelTrimestre(trimestre) ==
    IF trimestre = "Enero - Marzo" THEN <<"Enero", "Febrero", "Marzo">>
    ELSE IF trimestre = "Abril - Junio" THEN <<"Abril", "Mayo", "Junio">>
    ELSE IF trimestre = "Julio - Septiembre" THEN <<"Julio", "Agosto", "Septiembre">>
    ELSE <<"Octubre", "Noviembre", "Noviembre">>

\* calcularROATRIMESTRE over the three months of the list; dfs[mes] of a month
\* that is not loaded raises KeyError
TrimestreDe(mm, d) ==
    IF \E i \in 1..3 : mm[i] \notin DOMAIN d THEN Lanza
    ELSE calcularROATRIMESTRE(mm[1], d[mm[1]], mm[2], d[mm[2]], mm[3], d[mm[3]])

\* the two tables, and the scalars that the charts draw
procesar_datos_trimestrales(trimestre, d) == TrimestreDe(MesesDelTrimestre(trimestre), d)

\* list(dfs.keys()) / dfs.items(): the loaded months in loading order
Claves(d) == SelectSeq(meses, LAMBDA m : m \in DOMAIN d)

\* the Assets of the last period in place of the average
ActivoUltimoAnual(activos_totales, num_meses) ==
    IF num_meses > 0 THEN activos_totales[num_meses] ELSE Num(0)

\* sum(activos_totales) / num_meses if num_meses > 0 else 0
ActivoPromedioAnual(activos_totales, num_meses) ==
    IF num_meses > 0
    THEN Div(Reduce(<<Num(0)>> \o activos_totales), Num(num_meses)) ELSE Num(0)

\* the annual composition selecting the Assets as the monthly ones do
ColumnaActivosMensual == COL_CODIGO

\* calcular_metricas_basicas(df, columna_activos="GRUPO")
ColumnaActivosAnual == COL_GRUPO

\* the rows of the annual table: the metrics of each period with its ROA
TablaAnual(r, num_meses) ==
    [i \in 1..num_meses |->
        [Mes |-> r.tabla[i].Mes,
         Ingresos_Totales |-> r.tabla[i].Ingresos_Totales,
         Gastos_Totales |-> r.tabla[i].Gastos_Totales,
         Utilidad_Neta |-> r.tabla[i].Utilidad_Neta,
         Activo_Promedio |-> r.tabla[i].Activo_Promedio,
         ROA |-> r.roas[i].ROA]]

\* the result of the year from the loop, the net result and the mean
ResultadoAnual(r, num_meses, utilidad_neta_anual, activo_promedio_anual) ==
    IF HayError([i \in 1..num_meses |-> r.roas[i].ROA]) \/ IsErr(r.ingresos)
          \/ IsErr(r.gastos) \/ IsErr(r.utilidad) \/ IsErr(utilidad_neta_anual)
          \/ IsErr(RoaCompuesto(utilidad_neta_anual, activo_promedio_anual))
    THEN Lanza
    ELSE [exc |-> FALSE, tabla |-> TablaAnual(r, num_meses), ingresos |-> r.ingresos,
          gastos |-> r.gastos, utilidad_neta |-> utilidad_neta_anual,
          activo_promedio |-> activo_promedio_anual,
          roa |-> RoaCompuesto(utilidad_neta_anual, activo_promedio_anual)]

\* the loop handed to the net result, to the mean and to the result
PromediarAnual(r, num_meses) ==
    ResultadoAnual(r, num_meses, Sub(r.ingresos, r.gastos),
                   ActivoPromedioAnual(r.activos, num_meses))

\* the loop over the periods in loading order
RecorrerClaves(d, claves) ==
    PromediarAnual(Recorrer(claves, [i \in 1..Len(claves) |-> d[claves[i]]],
                            ColumnaActivosAnual),
                   Len(claves))

calcularROAAnual(d) == RecorrerClaves(d, Claves(d))

\* ------------------------------------------------------- solvency of the periods
\* (patrimonio / activo_total) * 100
SolvenciaPatrimonial(patrimonio, activo_total) ==
    Mul(Div(patrimonio, activo_total), Num(100))

\* one row of a solvency table
FilaSolvencia(mes, patrimonio, activo_total) ==
    [Mes |-> mes, Patrimonio |-> patrimonio, Activo_Total |-> activo_total,
     Solvencia_Patrimonial |-> SolvenciaPatrimonial(patrimonio, activo_total)]

calcularSolvenciaPatrimonialUnMes(df, nombre_mes) ==
    LET patrimonio == SumaDonde(df, COL_TIPO, TIPO_PATRIMONIO)
        activo_total == SumaDonde(df, COL_CODIGO, TIPO_ACTIVOS)
        fila == FilaSolvencia(nombre_mes, patrimonio, activo_total)
    IN IF IsErr(fila.Solvencia_Patrimonial) THEN Lanza
       ELSE [exc |-> FALSE, tabla |-> <<fila>>]

\* the scalars taken from the first period
EscalaresDelPrimero(fila1, fila2) == fila1

\* the names patrimonio, activo_total and solvencia_patrimonial hold, at the
\* return, the values computed last: those of df2
EscalaresDosMeses(fila1, fila2) == fila2

calcularSolvenciaPatrimonialDosMeses(df1, df2, mes1, mes2) ==
    LET fila1 == FilaSolvencia(mes1, SumaDonde(df1, COL_TIPO, TIPO_PATRIMONIO),
                               SumaDonde(df1, COL_CODIGO, TIPO_ACTIVOS))
        fila2 == FilaSolvencia(mes2, SumaDonde(df2, COL_TIPO, TIPO_PATRIMONIO),
                               SumaDonde(df2, COL_CODIGO, TIPO_ACTIVOS))
        escalares == EscalaresDosMeses(fila1, fila2)
    IN IF IsErr(fila1.Solvencia_Patrimonial) \/ IsErr(fila2.Solvencia_Patrimonial)
       THEN Lanza
       ELSE [exc |-> FALSE, tabla |-> <<fila1, fila2>>,
             solvencia_patrimonial |-> escalares.Solvencia_Patrimonial,
             patrimonio |-> escalares.Patrimonio, activo_total |-> escalares.Activo_Total]

calcularSolvenciaPatrimonialTrimestre(df1, df2, df3) ==
    LET patrimonio ==
            Div(Add(Add(SumaDonde(df1, COL_TIPO, TIPO_PATRIMONIO),
                        SumaDonde(df2, COL_TIPO, TIPO_PATRIMONIO)),
                    SumaDonde(df3, COL_TIPO, TIPO_PATRIMONIO)), Num(3))
        activo_total ==
            Div(Add(Add(SumaDonde(df1, COL_CODIGO, TIPO_ACTIVOS),
                        SumaDonde(df2, COL_CODIGO, TIPO_ACTIVOS)),
                    SumaDonde(df3, COL_CODIGO, TIPO_ACTIVOS)), Num(3))
        solvencia_patrimonial == SolvenciaPatrimonial(patrimonio, activo_total)
    IN IF IsErr(solvencia_patrimonial) THEN Lanza
       ELSE [exc |-> FALSE, solvencia_patrimonial |-> solvencia_patrimonial]

\* ------------------------------------- the quarter of the solvency view (tab3)
\* meses = [...] for the quarter selected in the solvency view
MesesDeSolvencia(trimestre) ==
    IF trimestre = "Enero - Marzo" THEN <<"Enero", "Febrero", "Marzo">>
    ELSE IF trimestre = "Abril - Junio" THEN <<"Abril", "Mayo", "Junio">>
    ELSE IF trimestre = "Julio - Septiembre" THEN <<"Julio", "Agosto", "Septiembre">>
    ELSE <<"Octubre", "Noviembre", "Noviembre">>

\* Series.mean(): the missing values are skipped, the mean of none is missing
MediaSerie(s) ==
    IF Len(SelectSeq(s, LAMBDA x : x.k # "nan")) = 0 THEN NAN
    ELSE Div(Reduce(SelectSeq(s, LAMBDA x : x.k # "nan")),
             Num(Len(SelectSeq(s, LAMBDA x : x.k # "nan"))))

\* pd.concat(solvencia_mensual) and the mean of its solvency column
PromedioDelTrimestre(s1, s2, s3) ==
    IF s1.exc \/ s2.exc \/ s3.exc THEN Lanza
    ELSE [exc |-> FALSE, tabla |-> s1.tabla \o s2.tabla \o s3.tabla,
          solvencia_patrimonial_promedio |->
              MediaSerie(<<s1.tabla[1].Solvencia_Patrimonial,
                           s2.tabla[1].Solvencia_Patrimonial,
                           s3.tabla[1].Solvencia_Patrimonial>>)]

\* the loop over the months of the quarter; dfs_actual[mes] of a month that is
\* not loaded raises KeyError
SolvenciaMensual(mm, dfs_actual) ==
    IF \E i \in 1..3 : mm[i] \notin DOMAIN dfs_actual THEN Lanza
    ELSE PromedioDelTrimestre(calcularSolvenciaPatrimonialUnMes(dfs_actual[mm[1]], mm[1]),
                              calcularSolvenciaPatrimonialUnMes(dfs_actual[mm[2]], mm[2]),
                              calcularSolvenciaPatrimonialUnMes(dfs_actual[mm[3]], mm[3]))

\* the total replaced by the value of the period
SinAcumular(total, valor) == valor

\* total += valor
Acumular(total, valor) == Add(total, valor)

\* the loop of calcularSolvenciaPatrimonialAnual: the running Equity and Assets
\* and one row per period
RECURSIVE RecorrerSolvencia(_, _)
RecorrerSolvencia(nombres, datos) ==
    IF Len(nombres) = 0
    THEN [tabla |-> <<>>, patrimonio_total |-> Num(0), activo_total_promedio |-> Num(0)]
    ELSE LET n == Len(nombres)
             prev == RecorrerSolvencia(SubSeq(nombres, 1, n - 1), SubSeq(datos, 1, n - 1))
             patrimonio_total ==
                 Acumular(prev.patrimonio_total,
                          SumaDonde(datos[n], COL_TIPO, TIPO_PATRIMONIO))
             activo_total_promedio ==
                 Acumular(prev.activo_total_promedio,
                          SumaDonde(datos[n], COL_CODIGO, TIPO_ACTIVOS))
         IN [tabla |-> Append(prev.tabla,
                              [Mes |-> nombres[n],
                               Patrimonio_Promedio |-> patrimonio_total,
                               Activo_Total_Promedio |-> activo_total_promedio,
                               Solvencia_Patrimonial |->
                                   SolvenciaPatrimonial(patrimonio_total, activo_total_promedio)]),
             patrimonio_total |-> patrimonio_total,
             activo_total_promedio |-> activo_total_promedio]

\* the accumulated Assets left as they are
ActivoSinPromediar(activo_total_promedio, num_meses) == activo_total_promedio

\* activo_total_promedio /= len(dfs)
ActivoPromedioSolvencia(activo_total_promedio, num_meses) ==
    Div(activo_total_promedio, Num(num_meses))

\* with no period, patrimonio_total / len(dfs) is 0 / 0 on Python integers:
\* ZeroDivisionError
calcularSolvenciaPatrimonialAnual(d) ==
    LET claves == Claves(d)
        r == RecorrerSolvencia(claves, [i \in 1..Len(claves) |-> d[claves[i]]])
        patrimonio_promedio == Div(r.patrimonio_total, Num(Len(claves)))
        activo_total_promedio ==
            ActivoPromedioSolvencia(r.activo_total_promedio, Len(claves))
        solvencia_patrimonial_anual ==
            SolvenciaPatrimonial(patrimonio_promedio, activo_total_promedio)
    IN IF Len(claves) = 0 THEN Lanza
       ELSE IF HayError([i \in 1..Len(claves) |-> r.tabla[i].Solvencia_Patrimonial])
               \/ IsErr(solvencia_patrimonial_anual)
       THEN Lanza
       ELSE [exc |-> FALSE, tabla |-> r.tabla,
             solvencia_patrimonial_anual |-> solvencia_patrimonial_anual,
             patrimonio_promedio |-> patrimonio_promedio,
             activo_total_promedio |-> activo_total_promedio]

\* --------------------------------------------- operating efficiency of the periods
\* (ingresos_totales - gastos_operativos) / ingresos_totales
EficienciaGastoOperativo(ingresos_totales, gastos_operativos) ==
    Div(Sub(ingresos_totales, gastos_operativos), ingresos_totales)

\* ... if ingresos_totales else 0
EficienciaGastoOperativoConGuarda(ingresos_totales, gastos_operativos) ==
    IF NeZero(ingresos_totales)
    THEN EficienciaGastoOperativo(ingresos_totales, gastos_operativos) ELSE Num(0)

calcularEficienciaGastoOperativo(df) ==
    LET ingresos_totales == SumaDonde(df, COL_TIPO, TIPO_INGRESOS)
        gastos_operativos == SumaDonde(df, COL_CODIGO, TIPO_GASTOS_OPERATIVOS)
        eficiencia_gasto_operativo ==
            EficienciaGastoOperativo(ingresos_totales, gastos_operativos)
    IN IF IsErr(eficiencia_gasto_operativo) THEN Lanza
       ELSE [exc |-> FALSE, eficiencia_gasto_operativo |-> eficiencia_gasto_operativo]

\* one row of an efficiency table
FilaEficiencia(mes, ingresos_totales, gastos_operativos, eficiencia) ==
    [Mes |-> mes, Ingresos_Totales |-> ingresos_totales,
     Gastos_Operativos |-> gastos_operativos,
     Eficiencia_por_Gasto_Operativo |-> eficiencia]

eficiencia_2_meses(df, df2, mes_inicio, mes_final) ==
    LET ingresos_totales1 == SumaDonde(df, COL_TIPO, TIPO_INGRESOS)
        gastos_operativos1 == SumaDonde(df, COL_CODIGO, TIPO_GASTOS_OPERATIVOS)
        eficiencia_gasto_operativo1 ==
            EficienciaGastoOperativo(ingresos_totales1, gastos_operativos1)
        ingresos_totales2 == SumaDonde(df2, COL_TIPO, TIPO_INGRESOS)
        gastos_operativos2 == SumaDonde(df2, COL_CODIGO, TIPO_GASTOS_OPERATIVOS)
        eficiencia_gasto_operativo2 ==
            EficienciaGastoOperativo(ingresos_totales2, gastos_operativos2)
    IN IF IsErr(eficiencia_gasto_operativo1) \/ IsErr(eficiencia_gasto_operativo2)
       THEN Lanza
       ELSE [exc |-> FALSE,
             tabla |-> <<FilaEficiencia(mes_inicio, ingresos_totales1,
                                        gastos_operativos1, eficiencia_gasto_operativo1),
                         FilaEficiencia(mes_final, ingresos_totales2,
                                        gastos_operativos2, eficiencia_gasto_operativo2)>>]

eficiencia_trimestral(df1, df2, df3, mes1, mes2, mes3) ==
    LET datos == <<df1, df2, df3>>
        nombres == <<mes1, mes2, mes3>>
        ingresos_totales == [i \in 1..3 |-> SumaDonde(datos[i], COL_TIPO, TIPO_INGRESOS)]
        gastos_operativos ==
            [i \in 1..3 |-> SumaDonde(datos[i], COL_CODIGO, TIPO_GASTOS_OPERATIVOS)]
        eficiencia ==
            [i \in 1..3 |->
                IF IsErr(ingresos_totales[i]) \/ IsErr(gastos_operativos[i]) THEN ERR
                ELSE EficienciaGastoOperativoConGuarda(ingresos_totales[i],
                                                       gastos_operativos[i])]
    IN IF HayError(eficiencia) THEN Lanza
       ELSE [exc |-> FALSE,
             tabla |-> [i \in 1..3 |->
                          FilaEficiencia(nombres[i], ingresos_totales[i],
                                         gastos_operativos[i], eficiencia[i])]]

\* ------------------------------------------- efficiency tables of the year view
\* the test  ingresos != 0  in place of  ingresos > 0
EsNoCero(a) == NeZero(a)

\* ingresos > 0 on a float: False on nan
EsPositivo(a) == a.k \in {"num", "inf"} /\ a.n > 0

\* (ingresos - gastos) / ingresos if ingresos > 0 else 0; the comparison of a
\* str with 0 raises TypeError
EficienciaSiPositivo(ingresos, gastos) ==
    IF IsErr(ingresos) \/ IsErr(gastos) \/ ingresos.k = "txt" THEN ERR
    ELSE IF EsPositivo(ingresos) THEN Div(Sub(ingresos, gastos), ingresos)
    ELSE Num(0)

\* one row of the table of calcular_datos_anuales
FilaDatos(mes, ingresos, gastos) ==
    [Mes |-> mes, Ingresos |-> ingresos, Gastos |-> gastos,
     Eficiencia |-> EficienciaSiPositivo(ingresos, gastos)]

\* the loop of calcular_datos_anuales: one row per period
RECURSIVE RecorrerDatos(_, _)
RecorrerDatos(nombres, datos) ==
    IF Len(nombres) = 0 THEN <<>>
    ELSE Append(RecorrerDatos(SubSeq(nombres, 1, Len(nombres) - 1),
                              SubSeq(datos, 1, Len(nombres) - 1)),
                FilaDatos(nombres[Len(nombres)],
                          SumaDonde(datos[Len(nombres)], COL_TIPO, TIPO_INGRESOS),
                          SumaDonde(datos[Len(nombres)], COL_CODIGO,
                                    TIPO_GASTOS_OPERATIVOS)))

\* meses + ['Total'], ... + [ingresos_totales], ..., + [eficiencia_global]
ConTotal(filas) ==
    Append(filas,
           FilaDatos("Total",
                     Reduce(<<Num(0)>> \o [i \in 1..Len(filas) |-> filas[i].Ingresos]),
                     Reduce(<<Num(0)>> \o [i \in 1..Len(filas) |-> filas[i].Gastos])))

\* the table, or the exception raised while it was computed
TablaOExcepcion(tabla) ==
    IF HayError([i \in 1..Len(tabla) |-> tabla[i].Eficiencia]) THEN Lanza
    ELSE [exc |-> FALSE, tabla |-> tabla]

\* the rows of the periods in loading order, then the row of the totals
DatosDeClaves(d, claves) ==
    TablaOExcepcion(ConTotal(RecorrerDatos(claves,
                                           [i \in 1..Len(claves) |-> d[claves[i]]])))

calcular_datos_anuales(d) == DatosDeClaves(d, Claves(d))

\* one point of an efficiency chart
PuntoEficiencia(mes, ingresos_totales, gastos_operativos) ==
    [Mes |-> mes, Eficiencia |-> EficienciaSiPositivo(ingresos_totales, gastos_operativos)]

\* the loop of the two efficiency charts: one point per period
RECURSIVE RecorrerPuntos(_, _)
RecorrerPuntos(nombres, datos) ==
    IF Len(nombres) = 0 THEN <<>>
    ELSE Append(RecorrerPuntos(SubSeq(nombres, 1, Len(nombres) - 1),
                               SubSeq(datos, 1, Len(nombres) - 1)),
                PuntoEficiencia(nombres[Len(nombres)],
                                SumaDonde(datos[Len(nombres)], COL_TIPO, TIPO_INGRESOS),
                                SumaDonde(datos[Len(nombres)], COL_CODIGO,
                                          TIPO_GASTOS_OPERATIVOS)))

\* the points of the periods in loading order
PuntosDeClaves(d, claves) ==
    TablaOExcepcion(RecorrerPuntos(claves, [i \in 1..Len(claves) |-> d[claves[i]]]))

\* the months and the efficiencies that the chart of the year draws
visualizar_eficiencia_anual_plotly(d) == PuntosDeClaves(d, Claves(d))

\* df_eficiencia, the table behind the chart of the quarter
visualizar_eficiencia_trimestral_plotly_express(df1, df2, df3, nombres_meses) ==
    TablaOExcepcion(RecorrerPuntos(nombres_meses, <<df1, df2, df3>>))

\* ------------------------------------------------- validation of all the files
\* f"{mes}_2023.csv", f"{mes}_2022.csv"
Archivo(mes, anio) == <<mes, "_", anio, ".csv">>

\* the turn of the loop with the test of the warnings before the one of validity
ClasificarAvisosPrimero(res, archivo, v) ==
    [res EXCEPT
       !.total_archivos = @ + 1,
       !.archivos_con_advertencias =
           IF Len(v.advertencias) > 0
           THEN Append(@, [archivo |-> archivo, advertencias |-> v.advertencias]) ELSE @,
       !.archivos_con_errores =
           IF Len(v.advertencias) = 0 /\ ~v.valido
           THEN Append(@, [archivo |-> archivo, errores |-> v.errores,
                           advertencias |-> v.advertencias]) ELSE @,
       !.archivos_validos =
           IF Len(v.advertencias) = 0 /\ v.valido THEN Append(@, archivo) ELSE @]

\* one turn of either loop: total_archivos += 1, then if not valido / elif
\* advertencias / else
Clasificar(res, archivo, v) ==
    [res EXCEPT
       !.total_archivos = @ + 1,
       !.archivos_con_errores =
           IF ~v.valido
           THEN Append(@, [archivo |-> archivo, errores |-> v.errores,
                           advertencias |-> v.advertencias]) ELSE @,
       !.archivos_con_advertencias =
           IF v.valido /\ Len(v.advertencias) > 0
           THEN Append(@, [archivo |-> archivo, advertencias |-> v.advertencias]) ELSE @,
       !.archivos_validos =
           IF v.valido /\ Len(v.advertencias) = 0 THEN Append(@, archivo) ELSE @]

\* for mes, df in d.items(): validate and classify
RECURSIVE ValidarAnio(_, _, _, _)
ValidarAnio(res, claves, d, anio) ==
    IF Len(claves) = 0 THEN res
    ELSE Clasificar(ValidarAnio(res, SubSeq(claves, 1, Len(claves) - 1), d, anio),
                    Archivo(claves[Len(claves)], anio),
                    validar_datos_financieros(d[claves[Len(claves)]]))

resultados_validacion_inicial ==
    [archivos_validos |-> <<>>, archivos_con_errores |-> <<>>,
     archivos_con_advertencias |-> <<>>, total_archivos |-> 0]

\* the files of 2023, then those of 2022
validar_calidad_datos(d, d2022) ==
    ValidarAnio(ValidarAnio(resultados_validacion_inicial, Claves(d), d, "2023"),
                Claves(d2022), d2022, "2022")

\* the datasets of a year as the validator leaves them
TrasValidar(d) == [m \in DOMAIN d |-> validar_datos_financieros(d[m]).df]

\* ------------------------------------------------------------------ datasets
Fila(cc, t, g, m) ==
    [c \in Columnas |-> IF c = COL_CODIGO THEN cc
                        ELSE IF c = COL_TIPO THEN t
                        ELSE IF c = COL_GRUPO THEN g ELSE m]

\* the dataset with the rows filas restricted to the columns cols
Dataset(cols, filas) ==
    [cols |-> cols,
     filas |-> [i \in 1..Len(filas) |-> [c \in cols |-> filas[i][c]]]]

Secuencias(S, n) == UNION {[1..k -> S] : k \in 0..n}

\* rows of processed extracts: positive amounts, the account types the engine
\* aggregates, and an account code and a GRUPO that select the row as Assets
\* both, or only one of them
FilasProcesadas ==
    {Fila(CNum(cg[1]), CNum(t), CNum(cg[2]), CNum(x)) :
        cg \in {<<TIPO_ACTIVOS, 1>>, <<TIPO_ACTIVOS, 2>>, <<TIPO_GASTOS_OPERATIVOS, 1>>},
        t \in {TIPO_PATRIMONIO, TIPO_GASTOS, TIPO_INGRESOS},
        x \in {1, MaxMonto - 1}}

\* rows of one extract as the engine may meet it: amounts of either sign,
\* missing or text; account types aggregated by the engine or not (1)
FilasExtracto ==
    {Fila(CNum(cc), CNum(t), CNum(1), m) :
        cc \in {TIPO_ACTIVOS, TIPO_GASTOS_OPERATIVOS},
        t \in {1, TIPO_PATRIMONIO, TIPO_GASTOS, TIPO_INGRESOS},
        m \in {CNum(x) : x \in {-1} \cup 1..(MaxMonto - 1)} \cup {CNaN, CTxt}}

\* rows that differ in what the validator reads: an amount under the
\* threshold, on it and beyond it on either side, missing or text; a type in
\* tipos_validos, outside it or missing
FilasValidar ==
    {Fila(CNum(TIPO_ACTIVOS), t, CNum(1), m) :
        t \in {CNum(TIPO_INGRESOS), CNum(6), CNaN},
        m \in {CNum(x) : x \in {-MaxMonto, 1, UMBRAL_EXTREMO, MaxMonto}} \cup {CNaN, CTxt}}

\* amounts as they are written in the files: with thousands separators, with
\* decimals, negative, plain; texts that are no amounts
CadenasCrudas ==
    {<<"1", ",", "2", "3", "4", ".", "5", "6">>,
     <<"1", ",", "0", "0", "0">>,
     <<"-", "2", ",", "5", "0", "0", ".", "5">>,
     <<"1", "2">>,
     <<"2", ".", "5">>,
     <<"1", ".", "2", ".", "3">>}

\* rows of a file as read: the amount a text, missing, or a text that is no
\* number
FilasCrudas ==
    {[c \in ColumnasCrudas |->
         IF c = COL_CODIGO THEN CNum(TIPO_ACTIVOS)
         ELSE IF c = COL_TIPO THEN CNum(TIPO_INGRESOS)
         ELSE IF c = COL_GRUPO THEN CNum(1)
         ELSE IF c = COL_MONTO THEN m ELSE CNaN] :
        m \in {CStr(s) : s \in CadenasCrudas} \cup {CNaN, CTxt}}

\* files of either year as the validator sorts them: sound, with an amount
\* beyond the threshold, with an account type that is not standard, with a
\* text for its only amount, with no row, and without its column of amounts
DatasetsCalidad ==
    {Dataset(Columnas, <<Fila(CNum(TIPO_ACTIVOS), CNum(TIPO_INGRESOS), CNum(1), CNum(1))>>),
     Dataset(Columnas, <<Fila(CNum(TIPO_ACTIVOS), CNum(TIPO_INGRESOS), CNum(1),
                              CNum(MaxMonto))>>),
     Dataset(Columnas, <<Fila(CNum(TIPO_ACTIVOS), CNum(6), CNum(1), CNum(1))>>),
     Dataset(Columnas, <<Fila(CNum(TIPO_ACTIVOS), CNum(TIPO_INGRESOS), CNum(1), CTxt)>>),
     Dataset(Columnas, <<>>),
     Dataset(Columnas \ {COL_MONTO},
             <<Fila(CNum(TIPO_ACTIVOS), CNum(TIPO_INGRESOS), CNum(1), CNum(1))>>)}

\* all ways to load the months with at most n rows in total
RECURSIVE Cargas(_, _, _)
Cargas(F, k, n) ==
    IF k = 0 THEN {<<>>}
    ELSE UNION {{Append(c, f) : c \in Cargas(F, k - 1, n - Len(f))} :
                f \in Secuencias(F, n)}

\* ------------------------------------------------------------- state machine
VARIABLES dfs, dfs2022, llamada, ret

vars == <<dfs, dfs2022, llamada, ret>>

Inicio == [op |-> "inicio", args |-> <<>>]
\* no file of the year loaded
SinArchivos == [m \in {} |-> Dataset(Columnas, <<>>)]
Nada == [exc |-> FALSE]

\* the files of all the months exist; processed extracts of MaxFilas rows in all
Init ==
    /\ dfs \in {[m \in Meses |-> Dataset(Columnas, c[CHOOSE i \in 1..Len(meses) : meses[i] = m])] :
                    c \in Cargas(FilasProcesadas, Len(meses), MaxFilas)}
    /\ dfs2022 = SinArchivos
    /\ llamada = Inicio
    /\ ret = Nada

\* only the file of the first month exists, or none at all
InitUno ==
    /\ \E cargados \in {{}, {meses[1]}} :
         dfs \in [cargados -> {Dataset(Columnas, f) : f \in Secuencias(FilasExtracto, MaxFilas)}]
    /\ dfs2022 = SinArchivos
    /\ llamada = Inicio
    /\ ret = Nada

\* only the file of the first month exists, and it may lack any column
InitValidar ==
    /\ \E cols \in SUBSET Columnas :
         dfs \in [{meses[1]} -> {Dataset(cols, f) : f \in Secuencias(FilasValidar, MaxFilas)}]
    /\ dfs2022 = SinArchivos
    /\ llamada = Inicio
    /\ ret = Nada

\* only the file of the first month exists, as read and before it is
\* cleaned, with or without the trailing unnamed column
InitCrudo ==
    /\ \E cols \in {Columnas, ColumnasCrudas} :
         dfs \in [{meses[1]} -> {Dataset(cols, f) : f \in Secuencias(FilasCrudas, MaxFilas)}]
    /\ dfs2022 = SinArchivos
    /\ llamada = Inicio
    /\ ret = Nada

\* any of the files of either year exists or not
InitCalidad ==
    /\ \E cargados \in SUBSET Meses : dfs \in [cargados -> DatasetsCalidad]
    /\ \E cargados \in SUBSET Meses : dfs2022 \in [cargados -> DatasetsCalidad]
    /\ llamada = Inicio
    /\ ret = Nada

\* A call is made when the previous one has returned.
Libre == llamada.op = "inicio"

Validar(m) ==
    /\ Libre /\ m \in DOMAIN dfs
    /\ LET r == validar_datos_financieros(dfs[m])
       IN /\ dfs' = [dfs EXCEPT ![m] = r.df]
          /\ ret' = [valido |-> r.valido, errores |-> r.errores,
                     advertencias |-> r.advertencias]
    /\ llamada' = [op |-> "validar_datos_financieros", args |-> <<m>>]
    /\ UNCHANGED dfs2022

MetricasBasicas(m) ==
    /\ Libre /\ m \in DOMAIN dfs
    /\ ret' = calcular_metricas_basicas(dfs[m], COL_CODIGO)
    /\ llamada' = [op |-> "calcular_metricas_basicas", args |-> <<m>>]
    /\ UNCHANGED <<dfs, dfs2022>>

MetricasEficiencia(m) ==
    /\ Libre /\ m \in DOMAIN dfs
    /\ ret' = calcular_metricas_eficiencia(dfs[m])
    /\ llamada' = [op |-> "calcular_metricas_eficiencia", args |-> <<m>>]
    /\ UNCHANGED <<dfs, dfs2022>>

MetricasSolvencia(m) ==
    /\ Libre /\ m \in DOMAIN dfs
    /\ ret' = calcular_metricas_solvencia(dfs[m])
    /\ llamada' = [op |-> "calcular_metricas_solvencia", args |-> <<m>>]
    /\ UNCHANGED <<dfs, dfs2022>>

IndicadoresPrincipales(mes_actual) ==
    /\ Libre
    /\ ret' = calcular_indicadores_principales(dfs, mes_actual)
    /\ llamada' = [op |-> "calcular_indicadores_principales", args |-> <<mes_actual>>]
    /\ UNCHANGED <<dfs, dfs2022>>

ROAMESES(mes, mes1) ==
    /\ Libre /\ mes \in DOMAIN dfs /\ mes1 \in DOMAIN dfs
    /\ ret' = calcularROAMESES(mes, dfs[mes], mes1, dfs[mes1])
    /\ llamada' = [op |-> "calcularROAMESES", args |-> <<mes, mes1>>]
    /\ UNCHANGED <<dfs, dfs2022>>

ROATRIMESTRE(mes, mes1, mes2) ==
    /\ Libre /\ mes \in DOMAIN dfs /\ mes1 \in DOMAIN dfs /\ mes2 \in DOMAIN dfs
    /\ ret' = calcularROATRIMESTRE(mes, dfs[mes], mes1, dfs[mes1], mes2, dfs[mes2])
    /\ llamada' = [op |-> "calcularROATRIMESTRE", args |-> <<mes, mes1, mes2>>]
    /\ UNCHANGED <<dfs, dfs2022>>

ROAAnual ==
    /\ Libre
    /\ ret' = calcularROAAnual(dfs)
    /\ llamada' = [op |-> "calcularROAAnual", args |-> <<>>]
    /\ UNCHANGED <<dfs, dfs2022>>

SolvenciaUnMes(m) ==
    /\ Libre /\ m \in DOMAIN dfs
    /\ ret' = calcularSolvenciaPatrimonialUnMes(dfs[m], m)
    /\ llamada' = [op |-> "calcularSolvenciaPatrimonialUnMes", args |-> <<m>>]
    /\ UNCHANGED <<dfs, dfs2022>>

SolvenciaDosMeses(mes_inicio, mes_final) ==
    /\ Libre /\ mes_inicio \in DOMAIN dfs /\ mes_final \in DOMAIN dfs
    /\ ret' = calcularSolvenciaPatrimonialDosMeses(dfs[mes_inicio], dfs[mes_final],
                                                   mes_inicio, mes_final)
    /\ llamada' = [op |-> "calcularSolvenciaPatrimonialDosMeses",
                   args |-> <<mes_inicio, mes_final>>]
    /\ UNCHANGED <<dfs, dfs2022>>

SolvenciaTrimestre(m1, m2, m3) ==
    /\ Libre /\ m1 \in DOMAIN dfs /\ m2 \in DOMAIN dfs /\ m3 \in DOMAIN dfs
    /\ ret' = calcularSolvenciaPatrimonialTrimestre(dfs[m1], dfs[m2], dfs[m3])
    /\ llamada' = [op |-> "calcularSolvenciaPatrimonialTrimestre", args |-> <<m1, m2, m3>>]
    /\ UNCHANGED <<dfs, dfs2022>>

SolvenciaAnual ==
    /\ Libre
    /\ ret' = calcularSolvenciaPatrimonialAnual(dfs)
    /\ llamada' = [op |-> "calcularSolvenciaPatrimonialAnual", args |-> <<>>]
    /\ UNCHANGED <<dfs, dfs2022>>

EficienciaUnMes(mes_inicio) ==
    /\ Libre /\ mes_inicio \in DOMAIN dfs
    /\ ret' = calcularEficienciaGastoOperativo(dfs[mes_inicio])
    /\ llamada' = [op |-> "calcularEficienciaGastoOperativo", args |-> <<mes_inicio>>]
    /\ UNCHANGED <<dfs, dfs2022>>

EficienciaDosMeses(mes_inicio, mes_final) ==
    /\ Libre /\ mes_inicio \in DOMAIN dfs /\ mes_final \in DOMAIN dfs
    /\ ret' = eficiencia_2_meses(dfs[mes_inicio], dfs[mes_final], mes_inicio, mes_final)
    /\ llamada' = [op |-> "eficiencia_2_meses", args |-> <<mes_inicio, mes_final>>]
    /\ UNCHANGED <<dfs, dfs2022>>

EficienciaTrimestral(m1, m2, m3) ==
    /\ Libre /\ m1 \in DOMAIN dfs /\ m2 \in DOMAIN dfs /\ m3 \in DOMAIN dfs
    /\ ret' = eficiencia_trimestral(dfs[m1], dfs[m2], dfs[m3], m1, m2, m3)
    /\ llamada' = [op |-> "eficiencia_trimestral", args |-> <<m1, m2, m3>>]
    /\ UNCHANGED <<dfs, dfs2022>>

\* dfs[mes] = procesar_dataframe(df)
Procesar(m) ==
    /\ Libre /\ m \in DOMAIN dfs
    /\ LET r == procesar_dataframe(dfs[m])
       IN /\ dfs' = [dfs EXCEPT ![m] = r]
          /\ ret' = [exc |-> FALSE, df |-> r]
    /\ llamada' = [op |-> "procesar_dataframe", args |-> <<m, dfs[m]>>]
    /\ UNCHANGED dfs2022

DatosAnuales ==
    /\ Libre
    /\ ret' = calcular_datos_anuales(dfs)
    /\ llamada' = [op |-> "calcular_datos_anuales", args |-> <<>>]
    /\ UNCHANGED <<dfs, dfs2022>>

VisualizarEficienciaAnual ==
    /\ Libre
    /\ ret' = visualizar_eficiencia_anual_plotly(dfs)
    /\ llamada' = [op |-> "visualizar_eficiencia_anual_plotly", args |-> <<>>]
    /\ UNCHANGED <<dfs, dfs2022>>

VisualizarEficienciaTrimestral(m1, m2, m3) ==
    /\ Libre /\ m1 \in DOMAIN dfs /\ m2 \in DOMAIN dfs /\ m3 \in DOMAIN dfs
    /\ ret' = visualizar_eficiencia_trimestral_plotly_express(dfs[m1], dfs[m2], dfs[m3],
                                                              <<m1, m2, m3>>)
    /\ llamada' = [op |-> "visualizar_eficiencia_trimestral_plotly_express",
                   args |-> <<m1, m2, m3>>]
    /\ UNCHANGED <<dfs, dfs2022>>

\* the quarter and the year chosen in the ROA view
ProcesarTrimestre(trimestre, anio) ==
    /\ Libre
    /\ ret' = procesar_datos_trimestrales(trimestre,
                                          IF anio = "2022" THEN dfs2022 ELSE dfs)
    /\ llamada' = [op |-> "procesar_datos_trimestrales", args |-> <<trimestre, anio>>]
    /\ UNCHANGED <<dfs, dfs2022>>

\* the quarter and the year chosen in the solvency view
SolvenciaTrimestral(trimestre, anio) ==
    /\ Libre
    /\ ret' = SolvenciaMensual(MesesDeSolvencia(trimestre),
                               IF anio = "2022" THEN dfs2022 ELSE dfs)
    /\ llamada' = [op |-> "solvencia_trimestral", args |-> <<trimestre, anio>>]
    /\ UNCHANGED <<dfs, dfs2022>>

\* validacion_datos = validar_calidad_datos()
ValidarCalidad ==
    /\ Libre
    /\ ret' = validar_calidad_datos(dfs, dfs2022)
    /\ dfs' = TrasValidar(dfs)
    /\ dfs2022' = TrasValidar(dfs2022)
    /\ llamada' = [op |-> "validar_calidad_datos", args |-> <<>>]

\* the caller takes the result; the next call may start
Retornar ==
    /\ ~Libre
    /\ llamada' = Inicio
    /\ ret' = Nada
    /\ UNCHANGED <<dfs, dfs2022>>

Next ==
    \/ \E m \in Meses : Validar(m)
    \/ \E m \in Meses : MetricasBasicas(m)
    \/ \E m \in Meses : MetricasEficiencia(m)
    \/ \E m \in Meses : MetricasSolvencia(m)
    \/ \E m \in Meses : IndicadoresPrincipales(m)
    \/ \E m, m1 \in Meses : ROAMESES(m, m1)
    \/ \E m, m1, m2 \in Meses : ROATRIMESTRE(m, m1, m2)
    \/ ROAAnual
    \/ \E m \in Meses : SolvenciaUnMes(m)
    \/ \E m, m1 \in Meses : SolvenciaDosMeses(m, m1)
    \/ \E m, m1, m2 \in Meses : SolvenciaTrimestre(m, m1, m2)
    \/ SolvenciaAnual
    \/ \E m \in Meses : EficienciaUnMes(m)
    \/ \E m, m1 \in Meses : EficienciaDosMeses(m, m1)
    \/ \E m, m1, m2 \in Meses : EficienciaTrimestral(m, m1, m2)
    \/ \E m \in Meses : Procesar(m)
    \/ \E trimestre \in Trimestres, anio \in {"2022", "2023", "2024"} :
          ProcesarTrimestre(trimestre, anio)
    \/ \E trimestre \in Trimestres, anio \in {"2022", "2023", "2024"} :
          SolvenciaTrimestral(trimestre, anio)
    \/ ValidarCalidad
    \/ DatosAnuales
    \/ VisualizarEficienciaAnual
    \/ \E m, m1, m2 \in Meses : VisualizarEficienciaTrimestral(m, m1, m2)
    \/ Retornar

Spec == Init /\ [][Next]_vars

SpecUno == InitUno /\ [][Next]_vars

SpecValidar == InitValidar /\ [][Next]_vars

SpecCrudo == InitCrudo /\ [][Next]_vars

SpecCalidad == InitCalidad /\ [][Next]_vars

\* ======================================================================
\* Properties
\* ======================================================================

\* the sum of the numeric amounts of the rows of df whose column col is val
RECURSIVE SumaRef(_, _, _)
SumaRef(df, col, val) ==
    IF Len(df.filas) = 0 THEN 0
    ELSE LET n == Len(df.filas)
             r == df.filas[n]
             resto == SumaRef([df EXCEPT !.filas = SubSeq(df.filas, 1, n - 1)], col, val)
         IN IF r[col] = CNum(val) /\ r[COL_MONTO].k = "num"
            THEN resto + r[COL_MONTO].v ELSE resto

Ingresos(df) == SumaRef(df, COL_TIPO, 5)
Gastos(df) == SumaRef(df, COL_TIPO, 4)
Patrimonio(df) == SumaRef(df, COL_TIPO, 3)
Activos(df) == SumaRef(df, COL_CODIGO, 1)
GastosOperativos(df) == SumaRef(df, COL_CODIGO, 45)

Requeridas == {COL_CODIGO, COL_TIPO, COL_MONTO}
TieneRequeridas(df) == Requeridas \subseteq df.cols
HayMonto(df, clase) ==
    COL_MONTO \in df.cols /\ \E i \in 1..Len(df.filas) : df.filas[i][COL_MONTO].k = clase
\* all required columns, and every amount a number or missing
BienFormado(df) == TieneRequeridas(df) /\ ~HayMonto(df, "txt")
\* all required columns, and every amount a number
SoloNumeros(df) == TieneRequeridas(df) /\ ~HayMonto(df, "txt") /\ ~HayMonto(df, "nan")

Llamo(op) == llamada.op = op
\* the dataset of the first month named in the call
Arg1 == dfs[llamada.args[1]]
Arg2 == dfs[llamada.args[2]]

Cero(mes) == [roa |-> Num(0), eficiencia |-> Num(0), solvencia |-> Num(0),
              mes_actual |-> mes]

\* ---------------------------------------------------------------------- C1
\* C1: for a dataset with the required columns, the summary returns roa = 0 and
\* solvencia = 0 when Assets (amounts with CODIGO_CONTABLE == 1) sum to 0, and
\* eficiencia = 0 when Income (amounts with TIPO == 5) sums to 0; it returns
\* finite numbers and raises nothing.
C1_DenominadorCero ==
    (Llamo("calcular_indicadores_principales") /\ llamada.args[1] \in DOMAIN dfs
        /\ TieneRequeridas(Arg1))
    => /\ DOMAIN ret = {"roa", "eficiencia", "solvencia", "mes_actual"}
       /\ IsFinite(ret.roa) /\ IsFinite(ret.eficiencia) /\ IsFinite(ret.solvencia)
       /\ Activos(Arg1) = 0 => (ret.roa = Num(0) /\ ret.solvencia = Num(0))
       /\ Ingresos(Arg1) = 0 => ret.eficiencia = Num(0)

\* rows with CODIGO_CONTABLE == 1 that cancel out, next to a net result and an
\* equity that are not 0; and operating expenses without any income
C1_Testigo ==
    /\ Llamo("calcular_indicadores_principales") /\ llamada.args[1] \in DOMAIN dfs
    /\ BienFormado(Arg1)
    /\ Activos(Arg1) = 0
    /\ \E i \in 1..Len(Arg1.filas) : Arg1.filas[i][COL_CODIGO] = CNum(1)
    /\ Ingresos(Arg1) - Gastos(Arg1) # 0
    /\ ret.roa = Num(0)

\* ---------------------------------------------------------------------- C2
EjemploA ==
    Dataset(Columnas,
            <<Fila(CNum(5), CNum(5), CNum(5), CNum(1000)),
              Fila(CNum(4), CNum(4), CNum(4), CNum(600)),
              Fila(CNum(1), CNum(1), CNum(1), CNum(2000)),
              Fila(CNum(3), CNum(3), CNum(3), CNum(800))>>)

\* C2: for a well-formed dataset with Assets # 0 and Income # 0 the summary is
\* roa = (Income - Expense) / Assets * 100, eficiencia = (Income - OperatingExpense)
\* / Income * 100 and solvencia = Equity / Assets * 100; the example of the
\* specification gives ROA 20 and Solvency 40.
C2_Formulas ==
    /\ (Llamo("calcular_indicadores_principales") /\ llamada.args[1] \in DOMAIN dfs
          /\ BienFormado(Arg1) /\ Activos(Arg1) # 0 /\ Ingresos(Arg1) # 0)
       => /\ ret.roa = Q((Ingresos(Arg1) - Gastos(Arg1)) * 100, Activos(Arg1))
          /\ ret.eficiencia =
                 Q((Ingresos(Arg1) - GastosOperativos(Arg1)) * 100, Ingresos(Arg1))
          /\ ret.solvencia = Q(Patrimonio(Arg1) * 100, Activos(Arg1))
          /\ ret.mes_actual = llamada.args[1]
    /\ LET e == calcular_indicadores_principales([m \in {"Enero"} |-> EjemploA], "Enero")
       IN e.roa = Num(20) /\ e.solvencia = Num(40)

\* a period with income, operating expenses, equity and assets, none of the
\* three ratios being 0
C2_Testigo ==
    /\ Llamo("calcular_indicadores_principales") /\ llamada.args[1] \in DOMAIN dfs
    /\ BienFormado(Arg1) /\ Activos(Arg1) # 0 /\ Ingresos(Arg1) # 0
    /\ GastosOperativos(Arg1) # 0 /\ Patrimonio(Arg1) # 0
    /\ ret.roa # Num(0) /\ ret.eficiencia # Num(0) /\ ret.solvencia # Num(0)
    /\ ret.eficiencia # Num(100)

\* ---------------------------------------------------------------------- C3
\* C3: when the reference period is no key of the datasets, the summary does not
\* raise: it is roa = 0, eficiencia = 0, solvencia = 0 and the requested period.
C3_ClaveAusente ==
    (Llamo("calcular_indicadores_principales") /\ llamada.args[1] \notin DOMAIN dfs)
    => ret = Cero(llamada.args[1])

\* the summary was asked for a month that is not loaded, others being loaded
C3_Testigo ==
    /\ Llamo("calcular_indicadores_principales")
    /\ llamada.args[1] \notin DOMAIN dfs
    /\ DOMAIN dfs # {}
    /\ ret.mes_actual = llamada.args[1]

\* --------------------------------------------------------- validator helpers
Validado == Llamo("validar_datos_financieros")
HayMensaje(lista, clase) == \E i \in 1..Len(lista) : lista[i][1] = clase
\* some amount is a number beyond the threshold
HayMontoExtremo(df) ==
    /\ COL_MONTO \in df.cols
    /\ \E i \in 1..Len(df.filas) :
          LET c == df.filas[i][COL_MONTO]
          IN c.k = "num" /\ (c.v > UMBRAL_EXTREMO \/ c.v < -UMBRAL_EXTREMO)
\* some amount is a number of magnitude exactly the threshold, none beyond it
HayMontoEnUmbral(df) ==
    /\ ~HayMontoExtremo(df)
    /\ \E i \in 1..Len(df.filas) :
          df.filas[i][COL_MONTO] \in {CNum(UMBRAL_EXTREMO), CNum(-UMBRAL_EXTREMO)}
\* some TIPO is present and outside {1, 2, 3, 4, 5}
HayTipoFuera(df) ==
    /\ COL_TIPO \in df.cols
    /\ \E i \in 1..Len(df.filas) :
          LET c == df.filas[i][COL_TIPO]
          IN c.k # "nan" /\ c \notin {CNum(1), CNum(2), CNum(3), CNum(4), CNum(5)}

\* ---------------------------------------------------------------------- C4
\* C4: when a required column is absent the validator returns valid = False with
\* at least one error, all of them about missing columns, and no warning: the
\* semantic checks do not run.
C4_CorteEstructural ==
    (Validado /\ ~TieneRequeridas(Arg1))
    => /\ ret.valido = FALSE
       /\ Len(ret.errores) >= 1
       /\ \A i \in 1..Len(ret.errores) : ret.errores[i][1] = "columna_faltante"
       /\ \A i \in 1..Len(ret.errores) : ret.errores[i][2] \in Requeridas \ Arg1.cols
       /\ Len(ret.errores) = Cardinality(Requeridas \ Arg1.cols)
       /\ ret.advertencias = <<>>

\* only TIPO is absent, and the amounts would have drawn the coercion and the
\* extreme-value warnings
C4_Testigo ==
    /\ Validado
    /\ Requeridas \ Arg1.cols = {COL_TIPO}
    /\ HayMontoExtremo(Arg1) /\ HayMonto(Arg1, "txt")
    /\ ret.valido = FALSE /\ ret.advertencias = <<>>

\* ---------------------------------------------------------------------- C5
\* C5 as stated: for any dataset with all required columns and purely numeric
\* amounts, one with zero rows included, the validator returns valid = True and
\* no errors.
C5_Original ==
    (Validado /\ SoloNumeros(Arg1))
    => (ret.valido = TRUE /\ ret.errores = <<>>)

\* C5 amended: for any dataset with all required columns, at least one row and
\* purely numeric amounts, the validator returns valid = True and no errors; for
\* the dataset with zero rows it returns valid = False with the one error that
\* the file has no valid monetary values.
C5_NumericosValidos ==
    /\ (Validado /\ SoloNumeros(Arg1) /\ Len(Arg1.filas) >= 1)
       => (ret.valido = TRUE /\ ret.errores = <<>>)
    /\ (Validado /\ TieneRequeridas(Arg1) /\ Len(Arg1.filas) = 0)
       => (ret.valido = FALSE /\ ret.errores = <<<<"sin_valores_validos", 0>>>>)

\* numeric amounts, some beyond the threshold, and a type outside the standard
\* ones: valid with two warnings
C5_Testigo ==
    /\ Validado /\ SoloNumeros(Arg1) /\ Len(Arg1.filas) >= 2
    /\ HayMontoExtremo(Arg1) /\ HayTipoFuera(Arg1)
    /\ ret.valido = TRUE /\ Len(ret.advertencias) = 2

\* ---------------------------------------------------------------------- C6
\* C6: for every dataset the valid flag is True exactly when the errors list is
\* empty, whatever the warnings.
C6_ValidoSiiSinErrores ==
    Validado => (ret.valido = TRUE <=> Len(ret.errores) = 0)

\* a valid report that carries the three kinds of warning
C6_Testigo ==
    /\ Validado /\ ret.valido = TRUE
    /\ HayMensaje(ret.advertencias, "no_convertibles")
    /\ HayMensaje(ret.advertencias, "valores_extremos")
    /\ HayMensaje(ret.advertencias, "tipos_no_estandar")

\* ---------------------------------------------------------------------- C7
\* C7 as stated: with all required columns and one or more rows, up to all of
\* them, whose amount is not a number, the coercion problem is a warning and no
\* error, and valid stays True.
C7_Original ==
    (Validado /\ TieneRequeridas(Arg1) /\ HayMonto(Arg1, "txt"))
    => /\ HayMensaje(ret.advertencias, "no_convertibles")
       /\ ret.errores = <<>>
       /\ ret.valido = TRUE

\* C7 amended: with all required columns, one or more rows whose amount is not
\* a number and at least one row whose amount is a number, the coercion problem
\* is a warning and no error, and valid stays True; when no row has a numeric
\* amount the warning is still given, but the report has the error that the
\* file has no valid monetary values and valid is False.
C7_CoercionComoAviso ==
    (Validado /\ TieneRequeridas(Arg1) /\ HayMonto(Arg1, "txt"))
    => /\ HayMensaje(ret.advertencias, "no_convertibles")
       /\ ~HayMensaje(ret.errores, "no_convertibles")
       /\ HayMonto(Arg1, "num") => (ret.errores = <<>> /\ ret.valido = TRUE)
       /\ ~HayMonto(Arg1, "num") =>
             (ret.errores = <<<<"sin_valores_validos", 0>>>> /\ ret.valido = FALSE)

\* a text amount next to a numeric one: warned and valid
C7_Testigo ==
    /\ Validado /\ TieneRequeridas(Arg1)
    /\ HayMonto(Arg1, "txt") /\ HayMonto(Arg1, "num")
    /\ HayMensaje(ret.advertencias, "no_convertibles")
    /\ ret.valido = TRUE

\* ---------------------------------------------------------------------- C8
\* C8 as stated: for every dataset, the extreme-value warning is given exactly
\* when some numeric amount is beyond 1e12 in magnitude, the non-standard-type
\* warning exactly when some present TIPO is outside {1..5}, and neither adds an
\* error.
C8_Original ==
    Validado
    => /\ HayMensaje(ret.advertencias, "valores_extremos") <=> HayMontoExtremo(Arg1)
       /\ HayMensaje(ret.advertencias, "tipos_no_estandar") <=> HayTipoFuera(Arg1)
       /\ ~HayMensaje(ret.errores, "valores_extremos")
       /\ ~HayMensaje(ret.errores, "tipos_no_estandar")

\* C8 amended: for every dataset that has the three required columns, the
\* extreme-value warning is given exactly when some numeric amount is strictly
\* beyond 1e12 in magnitude, the non-standard-type warning exactly when some
\* present TIPO is outside {1..5}; neither adds an error, and valid is True
\* whenever some amount is a number.
C8_AvisosDeRango ==
    (Validado /\ TieneRequeridas(Arg1))
    => /\ HayMensaje(ret.advertencias, "valores_extremos") <=> HayMontoExtremo(Arg1)
       /\ HayMensaje(ret.advertencias, "tipos_no_estandar") <=> HayTipoFuera(Arg1)
       /\ ~HayMensaje(ret.errores, "valores_extremos")
       /\ ~HayMensaje(ret.errores, "tipos_no_estandar")
       /\ HayMonto(Arg1, "num") => (ret.valido = TRUE /\ ret.errores = <<>>)

\* an amount of exactly the threshold and a missing TIPO: no warning at all
C8_Testigo ==
    /\ Validado /\ TieneRequeridas(Arg1)
    /\ HayMontoEnUmbral(Arg1)
    /\ \E i \in 1..Len(Arg1.filas) : Arg1.filas[i][COL_TIPO] = CNaN
    /\ ~HayTipoFuera(Arg1)
    /\ ret.advertencias = <<>> /\ ret.valido = TRUE

\* ---------------------------------------------------------------------- C9
\* C9: the validator, the single-period metric functions and the ROA composers
\* leave every dataset as it was: no call changes the loaded datasets.
C9_DatasetsIntactos == [][dfs' = dfs]_vars

\* the validator has coerced a text amount, and the dataset still holds it
C9_Testigo ==
    /\ Validado /\ TieneRequeridas(Arg1)
    /\ HayMensaje(ret.advertencias, "no_convertibles")
    /\ HayMonto(Arg1, "txt")

\* --------------------------------------------------------------------- C10
UtilidadNeta(df) == Ingresos(df) - Gastos(df)

\* C10: for two well-formed datasets calcularROAMESES returns the NetResult
\* period1.NetResult + period2.NetResult, and the ROA that is this sum over the
\* mean of the two periods' Assets, times 100, when the mean is not 0.
C10_DosMeses ==
    (Llamo("calcularROAMESES") /\ BienFormado(Arg1) /\ BienFormado(Arg2))
    => /\ ret.exc = FALSE
       /\ ret.utilidad_neta_total = Num(UtilidadNeta(Arg1) + UtilidadNeta(Arg2))
       /\ ret.activo_promedio = Q(Activos(Arg1) + Activos(Arg2), 2)
       /\ Activos(Arg1) + Activos(Arg2) # 0 =>
             ret.roa = Q((UtilidadNeta(Arg1) + UtilidadNeta(Arg2)) * 100 * 2,
                         Activos(Arg1) + Activos(Arg2))

\* two different months with different nonzero Assets and net results
C10_Testigo ==
    /\ Llamo("calcularROAMESES")
    /\ llamada.args[1] # llamada.args[2]
    /\ Activos(Arg1) # 0 /\ Activos(Arg2) # 0 /\ Activos(Arg1) # Activos(Arg2)
    /\ UtilidadNeta(Arg1) # 0 /\ UtilidadNeta(Arg2) # 0
    /\ UtilidadNeta(Arg1) + UtilidadNeta(Arg2) # 0
    /\ ret.roa # Num(0)

\* ------------------------------------------------- helpers of the compositions
Arg3 == dfs[llamada.args[3]]
ActivosGrupo(df) == SumaRef(df, COL_GRUPO, 1)
\* n / a * 100, and 0 when a is 0
RazonRef(n, a) == IF a = 0 THEN Num(0) ELSE Q(n * 100, a)

\* the sum of f over the set S
RECURSIVE SumaMeses(_, _)
SumaMeses(f, S) ==
    IF S = {} THEN 0
    ELSE LET m == CHOOSE x \in S : TRUE IN f[m] + SumaMeses(f, S \ {m})

NumMeses == Cardinality(DOMAIN dfs)
UtilidadAnual == SumaMeses([m \in DOMAIN dfs |-> UtilidadNeta(dfs[m])], DOMAIN dfs)
ActivosGrupoAnual == SumaMeses([m \in DOMAIN dfs |-> ActivosGrupo(dfs[m])], DOMAIN dfs)
TodosBienFormados == \A m \in DOMAIN dfs : BienFormado(dfs[m])

\* --------------------------------------------------------------------- C11
\* C11: for three well-formed datasets calcularROATRIMESTRE returns a detail
\* table and a ROA-only table with the same three period labels in the order of
\* the arguments, the ROA-only row of a period being its own NetResult / Assets
\* * 100 (0 if its Assets are 0), and a blended ROA equal to the sum of the three
\* NetResults over the mean of the three Assets, times 100.
C11_Trimestre ==
    (Llamo("calcularROATRIMESTRE") /\ BienFormado(Arg1) /\ BienFormado(Arg2)
        /\ BienFormado(Arg3))
    => LET ds == <<Arg1, Arg2, Arg3>>
           sumaN == UtilidadNeta(Arg1) + UtilidadNeta(Arg2) + UtilidadNeta(Arg3)
           sumaA == Activos(Arg1) + Activos(Arg2) + Activos(Arg3)
       IN /\ ret.exc = FALSE
          /\ Len(ret.tabla) = 3 /\ Len(ret.tabla_roa) = 3
          /\ \A i \in 1..3 :
                /\ ret.tabla[i].Mes = llamada.args[i]
                /\ ret.tabla_roa[i].Mes = llamada.args[i]
                /\ ret.tabla[i].Utilidad_Neta = Num(UtilidadNeta(ds[i]))
                /\ ret.tabla[i].Activo_Promedio = Num(Activos(ds[i]))
                /\ ret.tabla_roa[i].ROA = RazonRef(UtilidadNeta(ds[i]), Activos(ds[i]))
          /\ ret.utilidad_neta_total = Num(sumaN)
          /\ sumaA # 0 => ret.roa = Q(sumaN * 100 * 3, sumaA)

\* a quarter over two different months, one without Assets and with a net
\* result, the other with both
C11_Testigo ==
    /\ Llamo("calcularROATRIMESTRE")
    /\ llamada.args[1] # llamada.args[2]
    /\ Activos(Arg1) = 0 /\ UtilidadNeta(Arg1) # 0
    /\ Activos(Arg2) # 0 /\ UtilidadNeta(Arg2) # 0
    /\ ret.tabla_roa[1].ROA = Num(0) /\ ret.tabla_roa[2].ROA # Num(0)
    /\ ret.roa # Num(0) /\ ret.roa # ret.tabla_roa[2].ROA

\* --------------------------------------------------------------------- C12
\* C12: for N >= 1 well-formed datasets the annual ROA of calcularROAAnual is the
\* total NetResult of the N periods over the simple average of the N per-period
\* Assets (their sum / N), times 100, and not the ratio over the cumulative
\* Assets.
C12_Anual ==
    (Llamo("calcularROAAnual") /\ NumMeses >= 1 /\ TodosBienFormados)
    => /\ ret.exc = FALSE
       /\ ret.utilidad_neta = Num(UtilidadAnual)
       /\ ret.activo_promedio = Q(ActivosGrupoAnual, NumMeses)
       /\ ActivosGrupoAnual # 0 =>
             /\ ret.roa = Q(UtilidadAnual * 100 * NumMeses, ActivosGrupoAnual)
             /\ (NumMeses >= 2 /\ UtilidadAnual # 0) =>
                    ret.roa # Q(UtilidadAnual * 100, ActivosGrupoAnual)

\* a year of two months with different nonzero Assets and a net result
C12_Testigo ==
    /\ Llamo("calcularROAAnual") /\ NumMeses = 2
    /\ ActivosGrupo(dfs[meses[1]]) # 0 /\ ActivosGrupo(dfs[meses[2]]) # 0
    /\ ActivosGrupo(dfs[meses[1]]) # ActivosGrupo(dfs[meses[2]])
    /\ UtilidadAnual # 0
    /\ ret.roa # Num(0)

\* --------------------------------------------------------------------- C13
\* C13: in calcularROAMESES, calcularROATRIMESTRE and calcularROAAnual over
\* well-formed datasets the composed ROA is 0 whenever the mean of the
\* per-period Assets is 0; calcularROAAnual over no period at all returns ROA 0
\* and mean Assets 0; nothing is raised in these cases.
C13_PromedioCero ==
    /\ (Llamo("calcularROAMESES") /\ BienFormado(Arg1) /\ BienFormado(Arg2)
          /\ Activos(Arg1) + Activos(Arg2) = 0)
       => (ret.exc = FALSE /\ ret.roa = Num(0))
    /\ (Llamo("calcularROATRIMESTRE") /\ BienFormado(Arg1) /\ BienFormado(Arg2)
          /\ BienFormado(Arg3) /\ Activos(Arg1) + Activos(Arg2) + Activos(Arg3) = 0)
       => (ret.exc = FALSE /\ ret.roa = Num(0))
    /\ (Llamo("calcularROAAnual") /\ TodosBienFormados /\ ActivosGrupoAnual = 0)
       => (ret.exc = FALSE /\ ret.roa = Num(0) /\ ret.activo_promedio = Num(0))
    /\ (Llamo("calcularROAAnual") /\ NumMeses = 0)
       => (ret.exc = FALSE /\ ret.roa = Num(0) /\ ret.activo_promedio = Num(0)
           /\ ret.tabla = <<>>)

\* a quarter whose Assets rows cancel out while its net result is not 0
C13_Testigo ==
    /\ Llamo("calcularROATRIMESTRE")
    /\ BienFormado(Arg1) /\ BienFormado(Arg2) /\ BienFormado(Arg3)
    /\ \E i \in 1..Len(Arg1.filas) : Arg1.filas[i][COL_CODIGO] = CNum(1)
    /\ Activos(Arg1) + Activos(Arg2) + Activos(Arg3) = 0
    /\ UtilidadNeta(Arg1) # 0
    /\ ret.exc = FALSE /\ ret.roa = Num(0)

\* --------------------------------------------------------------------- C14
\* the months of the year in loading order, and the Equity and the Assets
\* accumulated over the first k of them
MesesDelAnio == Claves(dfs)
PatrimonioHasta(k) ==
    SumaMeses([m \in DOMAIN dfs |-> Patrimonio(dfs[m])], {MesesDelAnio[i] : i \in 1..k})
ActivosHasta(k) ==
    SumaMeses([m \in DOMAIN dfs |-> Activos(dfs[m])], {MesesDelAnio[i] : i \in 1..k})

\* C14 as stated: in calcularSolvenciaPatrimonialUnMes, ...DosMeses, ...Trimestre
\* and ...Anual, whenever the Assets denominator (per period, averaged or
\* cumulative) is 0 the reported solvency is 0 and no division error, infinity
\* or NaN is produced, also over a mapping of no period.
C14_Original ==
    /\ (Llamo("calcularSolvenciaPatrimonialUnMes") /\ BienFormado(Arg1)
          /\ Activos(Arg1) = 0)
       => (ret.exc = FALSE /\ ret.tabla[1].Solvencia_Patrimonial = Num(0))
    /\ (Llamo("calcularSolvenciaPatrimonialDosMeses") /\ BienFormado(Arg1)
          /\ BienFormado(Arg2))
       => /\ ret.exc = FALSE
          /\ Activos(Arg1) = 0 => ret.tabla[1].Solvencia_Patrimonial = Num(0)
          /\ Activos(Arg2) = 0 => ret.tabla[2].Solvencia_Patrimonial = Num(0)
    /\ (Llamo("calcularSolvenciaPatrimonialTrimestre") /\ BienFormado(Arg1)
          /\ BienFormado(Arg2) /\ BienFormado(Arg3)
          /\ Activos(Arg1) + Activos(Arg2) + Activos(Arg3) = 0)
       => (ret.exc = FALSE /\ ret.solvencia_patrimonial = Num(0))
    /\ (Llamo("calcularSolvenciaPatrimonialAnual") /\ TodosBienFormados)
       => /\ ret.exc = FALSE
          /\ \A k \in 1..NumMeses :
                ActivosHasta(k) = 0 => ret.tabla[k].Solvencia_Patrimonial = Num(0)
          /\ ActivosHasta(NumMeses) = 0 => ret.solvencia_patrimonial_anual = Num(0)

\* --------------------------------------------------------------------- C15
\* C15 as stated: in calcularEficienciaGastoOperativo and eficiencia_2_meses a
\* period whose Income is 0 gets efficiency 0 and no division error, infinity or
\* NaN is produced, as in eficiencia_trimestral.
C15_Original ==
    /\ (Llamo("calcularEficienciaGastoOperativo") /\ BienFormado(Arg1)
          /\ Ingresos(Arg1) = 0)
       => (ret.exc = FALSE /\ ret.eficiencia_gasto_operativo = Num(0))
    /\ (Llamo("eficiencia_2_meses") /\ BienFormado(Arg1) /\ BienFormado(Arg2))
       => /\ ret.exc = FALSE
          /\ Ingresos(Arg1) = 0 => ret.tabla[1].Eficiencia_por_Gasto_Operativo = Num(0)
          /\ Ingresos(Arg2) = 0 => ret.tabla[2].Eficiencia_por_Gasto_Operativo = Num(0)
    /\ (Llamo("eficiencia_trimestral") /\ BienFormado(Arg1) /\ BienFormado(Arg2)
          /\ BienFormado(Arg3))
       => /\ ret.exc = FALSE
          /\ \A i \in 1..3 :
                Ingresos(dfs[llamada.args[i]]) = 0 =>
                    ret.tabla[i].Eficiencia_por_Gasto_Operativo = Num(0)

\* --------------------------------------------------------------------- C16
\* C16 as stated: calcular_metricas_basicas on a dataset that lacks TIPO, the
\* amount column or the column that selects the Assets raises nothing and
\* returns Income 0, Expense 0, NetResult 0 and Assets 0, so that the period
\* adds nothing to a composed mean.
C16_Original ==
    /\ (Llamo("calcular_metricas_basicas") /\ ~TieneRequeridas(Arg1))
       => ret = [ingresos |-> Num(0), gastos |-> Num(0), activos |-> Num(0),
                 utilidad_neta |-> Num(0)]
    /\ (Llamo("calcularROAMESES") /\ ~TieneRequeridas(Arg1) /\ ~TieneRequeridas(Arg2))
       => (ret.exc = FALSE /\ ret.activo_promedio = Num(0))

\* --------------------------------------------------------------------- C17
\* the NetResult and the Assets (rows with GRUPO == 1) accumulated over the
\* first k months of the year
UtilidadHasta(k) ==
    SumaMeses([m \in DOMAIN dfs |-> UtilidadNeta(dfs[m])], {MesesDelAnio[i] : i \in 1..k})
ActivosGrupoHasta(k) ==
    SumaMeses([m \in DOMAIN dfs |-> ActivosGrupo(dfs[m])], {MesesDelAnio[i] : i \in 1..k})

\* C17 as stated: in calcularROAAnual the ROA of the row of the k-th period is
\* the cumulative-to-date ratio, the NetResult of periods 1..k over the Assets
\* accumulated over periods 1..k (their sum, or their running mean), for every k.
C17_Original ==
    (Llamo("calcularROAAnual") /\ TodosBienFormados)
    => /\ ret.exc = FALSE
       /\ \A k \in 1..NumMeses :
             \/ ret.tabla[k].ROA = RazonRef(UtilidadHasta(k), ActivosGrupoHasta(k))
             \/ ret.tabla[k].ROA = RazonRef(UtilidadHasta(k) * k, ActivosGrupoHasta(k))

\* C17 amended: in calcularROAAnual the row of the k-th period holds that
\* period's own Income, Expense, NetResult and Assets (rows with GRUPO == 1),
\* and its ROA is the period's own NetResult / Assets * 100 (0 if its Assets are
\* 0); only the totals returned next to the table are accumulated.
C17_RoaDelPeriodo ==
    (Llamo("calcularROAAnual") /\ TodosBienFormados)
    => /\ ret.exc = FALSE
       /\ Len(ret.tabla) = NumMeses
       /\ \A k \in 1..NumMeses :
             LET df == dfs[MesesDelAnio[k]]
             IN /\ ret.tabla[k].Mes = MesesDelAnio[k]
                /\ ret.tabla[k].Utilidad_Neta = Num(UtilidadNeta(df))
                /\ ret.tabla[k].Activo_Promedio = Num(ActivosGrupo(df))
                /\ ret.tabla[k].ROA = RazonRef(UtilidadNeta(df), ActivosGrupo(df))
       /\ ret.utilidad_neta = Num(UtilidadHasta(NumMeses))

\* the second of two months, where the ratio of the month differs from the
\* cumulative one
C17_Testigo ==
    /\ Llamo("calcularROAAnual") /\ NumMeses = 2
    /\ ActivosGrupo(dfs[meses[1]]) # 0 /\ ActivosGrupo(dfs[meses[2]]) # 0
    /\ UtilidadNeta(dfs[meses[1]]) # 0 /\ UtilidadNeta(dfs[meses[2]]) # 0
    /\ ret.tabla[2].ROA # Num(0)
    /\ ret.tabla[2].ROA # RazonRef(UtilidadHasta(2), ActivosGrupoHasta(2))
    /\ ret.tabla[2].ROA # RazonRef(UtilidadHasta(2) * 2, ActivosGrupoHasta(2))

\* --------------------------------------------------------------------- C18
\* C18: in calcularSolvenciaPatrimonialAnual the row of the k-th period holds
\* the Equity accumulated over periods 1..k, the Assets accumulated over periods
\* 1..k, and their ratio times 100 whenever these Assets are not 0.
C18_SolvenciaAcumulada ==
    (Llamo("calcularSolvenciaPatrimonialAnual") /\ NumMeses >= 1 /\ TodosBienFormados)
    => /\ ret.exc = FALSE
       /\ Len(ret.tabla) = NumMeses
       /\ \A k \in 1..NumMeses :
             /\ ret.tabla[k].Mes = MesesDelAnio[k]
             /\ ret.tabla[k].Patrimonio_Promedio = Num(PatrimonioHasta(k))
             /\ ret.tabla[k].Activo_Total_Promedio = Num(ActivosHasta(k))
             /\ ActivosHasta(k) # 0 =>
                   ret.tabla[k].Solvencia_Patrimonial =
                       Q(PatrimonioHasta(k) * 100, ActivosHasta(k))

\* two months, each with Assets, the first with Equity: the second row differs
\* from the first and from the second month's own ratio
C18_Testigo ==
    /\ Llamo("calcularSolvenciaPatrimonialAnual") /\ NumMeses = 2
    /\ Activos(dfs[meses[1]]) # 0 /\ Activos(dfs[meses[2]]) # 0
    /\ Patrimonio(dfs[meses[1]]) # 0
    /\ ret.exc = FALSE
    /\ ret.tabla[2].Solvencia_Patrimonial # ret.tabla[1].Solvencia_Patrimonial
    /\ ret.tabla[2].Solvencia_Patrimonial #
           RazonRef(Patrimonio(dfs[meses[2]]), Activos(dfs[meses[2]]))

\* --------------------------------------------------------------------- C19
\* the rows of a result table against the aggregates of the datasets ds, the
\* Assets being taken by the operator act
FilasSegun(tabla, ds, act(_)) ==
    /\ Len(tabla) = Len(ds)
    /\ \A i \in 1..Len(ds) :
          /\ tabla[i].Ingresos_Totales = Num(Ingresos(ds[i]))
          /\ tabla[i].Gastos_Totales = Num(Gastos(ds[i]))
          /\ tabla[i].Utilidad_Neta = Num(UtilidadNeta(ds[i]))
          /\ tabla[i].Activo_Promedio = Num(act(ds[i]))

\* C19: calcularROAAnual takes the Assets as the amounts of the rows with
\* GRUPO == 1, while the single-period summary, calcularROAMESES and
\* calcularROATRIMESTRE take the amounts of the rows with CODIGO_CONTABLE == 1;
\* Income, Expense and NetResult are computed alike on both paths.
C19_ColumnaDeActivos ==
    /\ (Llamo("calcularROAAnual") /\ TodosBienFormados)
       => /\ ret.exc = FALSE
          /\ FilasSegun(ret.tabla, [i \in 1..NumMeses |-> dfs[MesesDelAnio[i]]],
                        ActivosGrupo)
    /\ (Llamo("calcularROAMESES") /\ BienFormado(Arg1) /\ BienFormado(Arg2))
       => (ret.exc = FALSE /\ FilasSegun(ret.tabla, <<Arg1, Arg2>>, Activos))
    /\ (Llamo("calcularROATRIMESTRE") /\ BienFormado(Arg1) /\ BienFormado(Arg2)
          /\ BienFormado(Arg3))
       => (ret.exc = FALSE /\ FilasSegun(ret.tabla, <<Arg1, Arg2, Arg3>>, Activos))
    /\ (Llamo("calcular_metricas_basicas") /\ BienFormado(Arg1))
       => ret = [ingresos |-> Num(Ingresos(Arg1)), gastos |-> Num(Gastos(Arg1)),
                 activos |-> Num(Activos(Arg1)),
                 utilidad_neta |-> Num(UtilidadNeta(Arg1))]
    /\ (Llamo("calcular_indicadores_principales") /\ llamada.args[1] \in DOMAIN dfs
          /\ BienFormado(Arg1))
       => ret.roa = RazonRef(UtilidadNeta(Arg1), Activos(Arg1))

\* a year with a month whose Assets by GRUPO and by CODIGO_CONTABLE are both
\* present and different
C19_Testigo ==
    /\ Llamo("calcularROAAnual")
    /\ \E k \in 1..NumMeses :
          LET df == dfs[MesesDelAnio[k]]
          IN /\ ActivosGrupo(df) # 0 /\ Activos(df) # 0
             /\ ActivosGrupo(df) # Activos(df)
             /\ ret.tabla[k].Activo_Promedio = Num(ActivosGrupo(df))

\* --------------------------------------------------------------------- C20
\* the dataset handed to procesar_dataframe, and the one it returned
Antes == llamada.args[2]
Despues == ret.df

\* s is written as digits, with or without commas every three digits of the
\* integer part, and an optional decimal part
EscritoConMiles(s) ==
    LET punto == IF \E i \in 1..Len(s) : s[i] = "."
                 THEN CHOOSE i \in 1..Len(s) : s[i] = "." ELSE Len(s) + 1
        entera == SubSeq(s, 1, punto - 1)
        decimal == SubSeq(s, punto + 1, Len(s))
        n == Len(entera)
    IN /\ n >= 1 /\ EsDigito(entera[1])
       /\ \A i \in 1..n : EsDigito(entera[i]) \/ entera[i] = ","
       /\ \/ \A i \in 1..n : EsDigito(entera[i])
          \/ \A i \in 1..n : (entera[i] = ",") <=> ((n - i + 1) % 4 = 0)
       /\ punto <= Len(s) => Len(decimal) >= 1
       /\ \A i \in 1..Len(decimal) : EsDigito(decimal[i])

\* the number that s writes once its commas are deleted, as a cell
NumeroSinComas(s) ==
    LET punto == IF \E i \in 1..Len(s) : s[i] = "."
                 THEN CHOOSE i \in 1..Len(s) : s[i] = "." ELSE Len(s)
    IN CDec(Entero(SelectSeq(s, EsDigito)), Potencia10(Len(s) - punto))

\* the cell is missing, a number, or a text that reads as a number once its
\* commas are deleted
SePuedeConvertir(c) ==
    \/ c.k \in {"nan", "num"}
    \/ c.k = "str" /\ EsFlotante(SelectSeq(c.s, LAMBDA x : x # ","))

UnaCelda(s) ==
    Dataset(Columnas, <<Fila(CNum(1), CNum(5), CNum(1), CStr(s))>>)

\* C20 as stated: procesar_dataframe turns every amount written as digits with
\* comma thousands separators and an optional decimal part into the number
\* obtained by deleting the commas, in every row of the dataset.
C20_Original ==
    (Llamo("procesar_dataframe") /\ COL_MONTO \in Antes.cols)
    => /\ Len(Despues.filas) = Len(Antes.filas)
       /\ \A i \in 1..Len(Antes.filas) :
             LET c == Antes.filas[i][COL_MONTO]
             IN (c.k = "str" /\ EscritoConMiles(c.s)
                    /\ \E j \in 1..Len(c.s) : c.s[j] = ",")
                => Despues.filas[i][COL_MONTO] = NumeroSinComas(c.s)

\* C20 amended: when every amount of the dataset is missing or reads as a
\* number once its commas are deleted, procesar_dataframe turns every amount
\* written as digits with comma thousands separators and an optional decimal
\* part into the number obtained by deleting the commas ("1,234.56" becomes
\* 1234.56), in every row; when some amount does not, no amount is converted
\* and the amounts are returned as they were.  Either way the unnamed column
\* is dropped and the other columns are kept.
C20_Normaliza ==
    (Llamo("procesar_dataframe") /\ COL_MONTO \in Antes.cols)
    =>    /\ Despues = Arg1
          /\ Despues.cols = Antes.cols \ {COL_SOBRANTE}
          /\ Len(Despues.filas) = Len(Antes.filas)
          /\ \A i \in 1..Len(Antes.filas) :
                \A col \in Despues.cols \ {COL_MONTO} :
                    Despues.filas[i][col] = Antes.filas[i][col]
          /\ (\A i \in 1..Len(Antes.filas) : SePuedeConvertir(Antes.filas[i][COL_MONTO]))
             => \A i \in 1..Len(Antes.filas) :
                   LET c == Antes.filas[i][COL_MONTO]
                   IN /\ Despues.filas[i][COL_MONTO].k \in {"num", "nan"}
                      /\ (c.k = "str" /\ EscritoConMiles(c.s))
                         => Despues.filas[i][COL_MONTO] = NumeroSinComas(c.s)
          /\ (\E i \in 1..Len(Antes.filas) : ~SePuedeConvertir(Antes.filas[i][COL_MONTO]))
             => \A i \in 1..Len(Antes.filas) :
                   Despues.filas[i][COL_MONTO] = Antes.filas[i][COL_MONTO]
          /\ procesar_dataframe(UnaCelda(<<"1", ",", "2", "3", "4", ".", "5", "6">>))
                .filas[1][COL_MONTO] = CDec(123456, 100)

\* a file with the unnamed column and two amounts with thousands separators,
\* one of them "1,234.56": both are numbers afterwards
C20_Testigo ==
    /\ Llamo("procesar_dataframe")
    /\ COL_SOBRANTE \in Antes.cols /\ COL_MONTO \in Antes.cols
    /\ Len(Antes.filas) = 2
    /\ Antes.filas[1][COL_MONTO] = CStr(<<"1", ",", "2", "3", "4", ".", "5", "6">>)
    /\ Antes.filas[2][COL_MONTO].k = "str"
    /\ Antes.filas[2][COL_MONTO] # Antes.filas[1][COL_MONTO]
    /\ EscritoConMiles(Antes.filas[2][COL_MONTO].s)
    /\ \E i \in 1..Len(Antes.filas[2][COL_MONTO].s) : Antes.filas[2][COL_MONTO].s[i] = ","
    /\ Despues.filas[1][COL_MONTO] = CDec(123456, 100)
    /\ Despues.filas[2][COL_MONTO].k = "num"

\* --------------------------------------------------------------------- C21
\* the amount is a text that is no number even without its commas
EsTextoNoNumerico(c) == ~SePuedeConvertir(c)

\* the sum of the amounts that read as numbers, over the rows of df whose
\* column col is val
RECURSIVE SumaLegible(_, _, _)
SumaLegible(df, col, val) ==
    IF Len(df.filas) = 0 THEN Num(0)
    ELSE LET n == Len(df.filas)
             r == df.filas[n]
             resto == SumaLegible([df EXCEPT !.filas = SubSeq(df.filas, 1, n - 1)], col, val)
         IN IF r[col] = CNum(val) /\ SePuedeConvertir(r[COL_MONTO])
            THEN Add(resto, ValorCelda(ConvertirMonto(r[COL_MONTO]).celda))
            ELSE resto

\* the dataset is as procesar_dataframe leaves it
YaProcesado(df) == COL_SOBRANTE \notin df.cols /\ procesar_dataframe(df) = df

\* C21 as stated: when some row of a dataset holds an amount that is
\* non-numeric text, procesar_dataframe leaves the amount of every other row
\* numeric (or missing), and the Income and Assets that calcular_metricas_basicas
\* then computes are the sums over the rows whose amounts read as numbers.
C21_Original ==
    /\ (Llamo("procesar_dataframe") /\ COL_MONTO \in Antes.cols
           /\ \E i \in 1..Len(Antes.filas) : EsTextoNoNumerico(Antes.filas[i][COL_MONTO]))
       => \A i \in 1..Len(Antes.filas) :
             SePuedeConvertir(Antes.filas[i][COL_MONTO])
             => Despues.filas[i][COL_MONTO].k \in {"num", "nan"}
    /\ (Llamo("calcular_metricas_basicas") /\ TieneRequeridas(Arg1) /\ YaProcesado(Arg1)
           /\ \E i \in 1..Len(Arg1.filas) : EsTextoNoNumerico(Arg1.filas[i][COL_MONTO]))
       => /\ ret.ingresos = SumaLegible(Arg1, COL_TIPO, TIPO_INGRESOS)
          /\ ret.activos = SumaLegible(Arg1, COL_CODIGO, TIPO_ACTIVOS)

\* --------------------------------------------------------------------- C22
\* the periods of the year as the caller supplies them: the loaded months in
\* the order of the list of months
PeriodosDelAnio == SelectSeq(meses, LAMBDA m : m \in DOMAIN dfs)

\* the table has one row per period of nombres, in that order, and no other
UnaFilaPorPeriodo(tabla, nombres) ==
    /\ Len(tabla) = Len(nombres)
    /\ \A i \in 1..Len(nombres) : tabla[i].Mes = nombres[i]

\* the tables of the composers other than calcular_datos_anuales
TablasPorPeriodo ==
    /\ Llamo("calcularROAMESES")
       => ret.exc = FALSE /\ UnaFilaPorPeriodo(ret.tabla, llamada.args)
    /\ Llamo("calcularROATRIMESTRE")
       => /\ ret.exc = FALSE
          /\ UnaFilaPorPeriodo(ret.tabla, llamada.args)
          /\ UnaFilaPorPeriodo(ret.tabla_roa, llamada.args)
    /\ Llamo("calcularROAAnual")
       => ret.exc = FALSE /\ UnaFilaPorPeriodo(ret.tabla, PeriodosDelAnio)
    /\ Llamo("calcularSolvenciaPatrimonialAnual")
       => ret.exc = FALSE /\ UnaFilaPorPeriodo(ret.tabla, PeriodosDelAnio)
    /\ Llamo("eficiencia_2_meses")
       => ret.exc = FALSE /\ UnaFilaPorPeriodo(ret.tabla, llamada.args)
    /\ Llamo("eficiencia_trimestral")
       => ret.exc = FALSE /\ UnaFilaPorPeriodo(ret.tabla, llamada.args)

\* C22 as stated: every multi-period result table, the one of
\* calcular_datos_anuales included, has exactly one row per supplied period and
\* no other row, in the order in which the periods were supplied.
C22_Original ==
    /\ TablasPorPeriodo
    /\ Llamo("calcular_datos_anuales")
       => ret.exc = FALSE /\ UnaFilaPorPeriodo(ret.tabla, PeriodosDelAnio)

\* C22 amended: the tables of calcularROAMESES, calcularROATRIMESTRE (both of
\* them), calcularROAAnual, calcularSolvenciaPatrimonialAnual, eficiencia_2_meses
\* and eficiencia_trimestral have exactly one row per supplied period, in the
\* order supplied; the table of calcular_datos_anuales has these rows, in that
\* order, followed by one more row labelled "Total".
C22_FilasPorPeriodo ==
    /\ TablasPorPeriodo
    /\ Llamo("calcular_datos_anuales")
       => /\ ret.exc = FALSE
          /\ UnaFilaPorPeriodo(ret.tabla, Append(PeriodosDelAnio, "Total"))

\* the year of two periods: their two rows in loading order and the row of
\* the totals after them
C22_Testigo ==
    /\ Llamo("calcular_datos_anuales")
    /\ Len(PeriodosDelAnio) = 2
    /\ Len(ret.tabla) = 3
    /\ ret.tabla[1].Mes = "Octubre" /\ ret.tabla[2].Mes = "Noviembre"
    /\ ret.tabla[3].Mes = "Total"
    /\ ret.tabla[1].Ingresos # ret.tabla[2].Ingresos

\* --------------------------------------------------------------------- C23
\* the loaded files of both years, each a month and a year
ArchivosCargados ==
    {<<m, "2023">> : m \in DOMAIN dfs} \cup {<<m, "2022">> : m \in DOMAIN dfs2022}

DatasetDe(f) == IF f[2] = "2023" THEN dfs[f[1]] ELSE dfs2022[f[1]]

\* how many times the file a is listed in each category
EnValidos(a) ==
    Cardinality({i \in 1..Len(ret.archivos_validos) : ret.archivos_validos[i] = a})
EnErrores(a) ==
    Cardinality({i \in 1..Len(ret.archivos_con_errores) :
                    ret.archivos_con_errores[i].archivo = a})
EnAdvertencias(a) ==
    Cardinality({i \in 1..Len(ret.archivos_con_advertencias) :
                    ret.archivos_con_advertencias[i].archivo = a})

\* C23: validar_calidad_datos lists every loaded file of both years in exactly
\* one of archivos_validos, archivos_con_advertencias and archivos_con_errores:
\* in archivos_con_errores iff its validation is not valid, whether or not it
\* has warnings; in archivos_con_advertencias iff it is valid and has a
\* warning; in archivos_validos otherwise.  total_archivos is the number of
\* files and the sum of the lengths of the three lists.
C23_TresCategorias ==
    Llamo("validar_calidad_datos")
    => /\ \A f \in ArchivosCargados :
             LET a == Archivo(f[1], f[2])
                 v == validar_datos_financieros(DatasetDe(f))
             IN /\ EnValidos(a) + EnErrores(a) + EnAdvertencias(a) = 1
                /\ EnErrores(a) = 1 <=> ~v.valido
                /\ EnAdvertencias(a) = 1 <=> (v.valido /\ Len(v.advertencias) > 0)
                /\ EnValidos(a) = 1 <=> (v.valido /\ Len(v.advertencias) = 0)
       /\ ret.total_archivos = Cardinality(ArchivosCargados)
       /\ ret.total_archivos = Len(ret.archivos_validos) + Len(ret.archivos_con_errores)
                                  + Len(ret.archivos_con_advertencias)

\* four files over the two years, one in each category and one more with
\* errors that has warnings as well
C23_Testigo ==
    /\ Llamo("validar_calidad_datos")
    /\ ret.total_archivos = 4
    /\ Len(ret.archivos_validos) = 1
    /\ Len(ret.archivos_con_advertencias) = 1
    /\ Len(ret.archivos_con_errores) = 2
    /\ \E i \in 1..2 : Len(ret.archivos_con_errores[i].advertencias) > 0
    /\ \E i \in 1..2 : Len(ret.archivos_con_errores[i].advertencias) = 0

\* --------------------------------------------------------------------- C24
\* the combined NetResult and the blended ROA of two results are the same, or
\* both calls raised
MismoCompuesto(r, o, utilidad) ==
    /\ r.exc = o.exc
    /\ ~r.exc => /\ r[utilidad] = o[utilidad]
                 /\ r.roa = o.roa

\* the sequence s rearranged by the permutation p of its indices
Permutada(s, p) == [i \in 1..Len(s) |-> s[p[i]]]

C25_NoviembreDosVeces ==
    (Llamo("procesar_datos_trimestrales") /\ llamada.args[1] = "Octubre - Diciembre"
        /\ llamada.args[2] # "2022" /\ {"Octubre", "Noviembre"} \subseteq DOMAIN dfs
        /\ BienFormado(dfs["Octubre"]) /\ BienFormado(dfs["Noviembre"]))
    => LET oct == dfs["Octubre"]
           nov == dfs["Noviembre"]
       IN /\ ret.exc = FALSE
          /\ ret.utilidad_neta_total = Num(UtilidadNeta(oct) + 2 * UtilidadNeta(nov))
          /\ ret.activo_promedio = Q(Activos(oct) + 2 * Activos(nov), 3)
          /\ UnaFilaPorPeriodo(ret.tabla, <<"Octubre", "Noviembre", "Noviembre">>)
          /\ UnaFilaPorPeriodo(ret.tabla_roa, <<"Octubre", "Noviembre", "Noviembre">>)
          /\ \A i \in 1..3 : ret.tabla[i].Mes # "Diciembre"
                              /\ ret.tabla_roa[i].Mes # "Diciembre"
          /\ ret.tabla[2] = ret.tabla[3]
          /\ ret.tabla[2].Utilidad_Neta = Num(UtilidadNeta(nov))

\* the last quarter of a year whose October and November differ in NetResult
\* and in Assets
C25_Testigo ==
    /\ Llamo("procesar_datos_trimestrales") /\ llamada.args = <<"Octubre - Diciembre", "2023">>
    /\ {"Octubre", "Noviembre"} \subseteq DOMAIN dfs
    /\ UtilidadNeta(dfs["Octubre"]) # UtilidadNeta(dfs["Noviembre"])
    /\ UtilidadNeta(dfs["Noviembre"]) # 0
    /\ Activos(dfs["Octubre"]) # Activos(dfs["Noviembre"])
    /\ Activos(dfs["Noviembre"]) # 0
    /\ ret.exc = FALSE

\* --------------------------------------------------------------------- C26
\* C26: the scalar Income and Expense that calcularROAMESES and
\* calcularROATRIMESTRE return are those of the last supplied period alone,
\* and the scalar NetResult the sum over all the periods; the NetResult is the
\* returned Income minus the returned Expense exactly when the NetResults of
\* the earlier periods add up to 0.
C26_EscalaresDelUltimo ==
    /\ (Llamo("calcularROAMESES") /\ BienFormado(Arg1) /\ BienFormado(Arg2))
       => /\ ret.exc = FALSE
          /\ ret.ingresos = Num(Ingresos(Arg2))
          /\ ret.gastos = Num(Gastos(Arg2))
          /\ ret.utilidad_neta_total = Num(UtilidadNeta(Arg1) + UtilidadNeta(Arg2))
          /\ (ret.utilidad_neta_total = Sub(ret.ingresos, ret.gastos))
             <=> (UtilidadNeta(Arg1) = 0)
    /\ (Llamo("calcularROATRIMESTRE") /\ BienFormado(Arg1) /\ BienFormado(Arg2)
           /\ BienFormado(Arg3))
       => /\ ret.exc = FALSE
          /\ ret.ingresos = Num(Ingresos(Arg3))
          /\ ret.gastos = Num(Gastos(Arg3))
          /\ ret.utilidad_neta_total =
                 Num(UtilidadNeta(Arg1) + UtilidadNeta(Arg2) + UtilidadNeta(Arg3))
          /\ (ret.utilidad_neta_total = Sub(ret.ingresos, ret.gastos))
             <=> (UtilidadNeta(Arg1) + UtilidadNeta(Arg2) = 0)

\* a quarter whose earlier periods have a NetResult, so that the returned
\* NetResult is not the returned Income minus the returned Expense
C26_Testigo ==
    /\ Llamo("calcularROATRIMESTRE")
    /\ llamada.args[1] # llamada.args[3]
    /\ UtilidadNeta(Arg1) + UtilidadNeta(Arg2) # 0
    /\ Ingresos(Arg3) # 0 /\ Ingresos(Arg1) # 0
    /\ ret.exc = FALSE
    /\ ret.ingresos = Num(Ingresos(Arg3))
    /\ ret.utilidad_neta_total # Sub(ret.ingresos, ret.gastos)

\* --------------------------------------------------------------------- C27
\* the three scalars of a call of calcularSolvenciaPatrimonialDosMeses
EscalaresDe(r) == <<r.solvencia_patrimonial, r.patrimonio, r.activo_total>>

\* the call of the state with the first period replaced by the month m
ConPrimero(m) ==
    calcularSolvenciaPatrimonialDosMeses(dfs[m], Arg2, m, llamada.args[2])

\* the call of the state with the two periods swapped
Intercambiada ==
    calcularSolvenciaPatrimonialDosMeses(Arg2, Arg1, llamada.args[2], llamada.args[1])

\* the scalars are those of the second period and no first period changes them
EscalaresDelSegundo ==
    /\ ret.exc = FALSE
    /\ ret.patrimonio = Num(Patrimonio(Arg2))
    /\ ret.activo_total = Num(Activos(Arg2))
    /\ ret.solvencia_patrimonial = ret.tabla[2].Solvencia_Patrimonial
    /\ Activos(Arg2) # 0 =>
          ret.solvencia_patrimonial = Q(Patrimonio(Arg2) * 100, Activos(Arg2))
    /\ \A m \in DOMAIN dfs :
          BienFormado(dfs[m]) =>
              (ConPrimero(m).exc = FALSE /\ EscalaresDe(ConPrimero(m)) = EscalaresDe(ret))

\* C27 as stated: the scalars returned by calcularSolvenciaPatrimonialDosMeses
\* are the second period's only, they do not depend on the first period's
\* dataset, and swapping the two periods changes them whenever the periods
\* differ.
C27_Original ==
    (Llamo("calcularSolvenciaPatrimonialDosMeses") /\ BienFormado(Arg1)
        /\ BienFormado(Arg2))
    => /\ EscalaresDelSegundo
       /\ Arg1 # Arg2 => EscalaresDe(Intercambiada) # EscalaresDe(ret)

\* C27: the scalars returned by calcularSolvenciaPatrimonialDosMeses are the
\* second period's only, they do not depend on the first period's dataset, and
\* swapping the two periods changes them whenever the periods differ in Equity
\* or in Assets.
C27_EscalaresDelSegundo ==
    (Llamo("calcularSolvenciaPatrimonialDosMeses") /\ BienFormado(Arg1)
        /\ BienFormado(Arg2))
    => /\ EscalaresDelSegundo
       /\ (Patrimonio(Arg1) # Patrimonio(Arg2) \/ Activos(Arg1) # Activos(Arg2))
             => EscalaresDe(Intercambiada) # EscalaresDe(ret)

\* two periods of different Equity and Assets: the scalars are the second's
\* and not the first's
C27_Testigo ==
    /\ Llamo("calcularSolvenciaPatrimonialDosMeses")
    /\ BienFormado(Arg1) /\ BienFormado(Arg2)
    /\ Patrimonio(Arg1) # Patrimonio(Arg2) /\ Activos(Arg1) # Activos(Arg2)
    /\ Activos(Arg1) # 0 /\ Activos(Arg2) # 0
    /\ ret.exc = FALSE
    /\ ret.patrimonio = Num(Patrimonio(Arg2))
    /\ ret.solvencia_patrimonial # ret.tabla[1].Solvencia_Patrimonial
    /\ EscalaresDe(Intercambiada) # EscalaresDe(ret)

EficienciaDelMotor(df) == calcular_metricas_eficiencia(df).eficiencia

\* (Income - OperatingExpense) / Income on the aggregates of the dataset
EficienciaRef(df) == Q(Ingresos(df) - GastosOperativos(df), Ingresos(df))

\* the efficiency e that a table or a chart of the year view reports for the
\* dataset: 0 under a negative Income, that of the engine otherwise
SegunElSigno(e, df) ==
    /\ Ingresos(df) < 0 => (e = Num(0) /\ EficienciaDelMotor(df) = EficienciaRef(df))
    /\ Ingresos(df) >= 0 => e = EficienciaDelMotor(df)

\* C29: the guard against a zero Income differs between the efficiency
\* functions: for a negative Income calcular_metricas_eficiencia returns
\* (Income - OperatingExpense) / Income, while calcular_datos_anuales,
\* visualizar_eficiencia_anual_plotly and
\* visualizar_eficiencia_trimestral_plotly_express report 0; they agree for
\* every Income that is not negative.
C29_GuardaDistinta ==
    /\ (Llamo("calcular_metricas_eficiencia") /\ BienFormado(Arg1))
       => /\ Ingresos(Arg1) < 0 => ret.eficiencia = EficienciaRef(Arg1)
          /\ Ingresos(Arg1) > 0 => ret.eficiencia = EficienciaRef(Arg1)
          /\ Ingresos(Arg1) = 0 => ret.eficiencia = Num(0)
    /\ (Llamo("calcular_datos_anuales") /\ TodosBienFormados)
       => /\ ret.exc = FALSE
          /\ \A k \in 1..NumMeses :
                SegunElSigno(ret.tabla[k].Eficiencia, dfs[MesesDelAnio[k]])
    /\ (Llamo("visualizar_eficiencia_anual_plotly") /\ TodosBienFormados)
       => /\ ret.exc = FALSE
          /\ \A k \in 1..NumMeses :
                SegunElSigno(ret.tabla[k].Eficiencia, dfs[MesesDelAnio[k]])
    /\ (Llamo("visualizar_eficiencia_trimestral_plotly_express") /\ TodosBienFormados)
       => /\ ret.exc = FALSE
          /\ \A k \in 1..3 :
                SegunElSigno(ret.tabla[k].Eficiencia, dfs[llamada.args[k]])

\* a month of negative Income and of operating expenses: the table of the year
\* reports 0 where the engine returns a ratio that is not 0
C29_Testigo ==
    /\ Llamo("calcular_datos_anuales") /\ NumMeses = 1 /\ TodosBienFormados
    /\ Ingresos(dfs[MesesDelAnio[1]]) < 0
    /\ GastosOperativos(dfs[MesesDelAnio[1]]) > 0
    /\ ret.exc = FALSE
    /\ ret.tabla[1].Eficiencia = Num(0)
    /\ EficienciaDelMotor(dfs[MesesDelAnio[1]]) # Num(0)

\* --------------------------------------------------------------------- C30
\* the months of the quarter chosen in the solvency view and their datasets
MesesElegidos == MesesDeSolvencia(llamada.args[1])
DatosElegidos == IF llamada.args[2] = "2022" THEN dfs2022 ELSE dfs
Elegido(i) == DatosElegidos[MesesElegidos[i]]
ElegidosBienFormados ==
    /\ \A i \in 1..3 : MesesElegidos[i] \in DOMAIN DatosElegidos
    /\ \A i \in 1..3 : BienFormado(Elegido(i))

\* the arithmetic mean of the three per-month percentages Equity / Assets * 100
MediaDeLosTres ==
    Div(Reduce([i \in 1..3 |-> RazonRef(Patrimonio(Elegido(i)), Activos(Elegido(i)))]),
        Num(3))

\* C30 as stated: the quarterly solvency shown by the dashboard is the
\* arithmetic mean of the three per-month solvency percentages (each month's
\* Equity / Assets * 100); it agrees with calcularSolvenciaPatrimonialTrimestre
\* on the same three datasets whenever the three months have equal Assets.
C30_Original ==
    (Llamo("solvencia_trimestral") /\ ElegidosBienFormados)
    => /\ ret.exc = FALSE
       /\ ret.solvencia_patrimonial_promedio = MediaDeLosTres
       /\ (Activos(Elegido(1)) = Activos(Elegido(2))
             /\ Activos(Elegido(2)) = Activos(Elegido(3)))
          => LET t == calcularSolvenciaPatrimonialTrimestre(Elegido(1), Elegido(2),
                                                           Elegido(3))
             IN t.exc = FALSE
                /\ ret.solvencia_patrimonial_promedio = t.solvencia_patrimonial

====
